---- MODULE Spec2Model ----
(***************************************************************************)
(* Model of the UAI Engine API control plane (src/apps/api): the credit    *)
(* ledger (services/credit_service.py), the request handlers of            *)
(* routes/auth.py, routes/credits.py and routes/projects.py, and the       *)
(* project orchestrator with its build / repair loop                       *)
(* (services/project_orchestrator.py, build_service.py, repair_service.py).*)
(*                                                                         *)
(* Every request is served by a worker that owns one SQLAlchemy session.   *)
(* A session reads committed rows (SELECT) and keeps its writes pending    *)
(* until db.commit() flushes all of them at once.  A step of the model is  *)
(* the code between two such database / runner interactions.               *)
(* Credits are counted in whole credits (every cost of config/credits.py   *)
(* is a whole number).                                                     *)
(***************************************************************************)
EXTENDS Integers, Sequences, FiniteSets, TLC

\* ------------------------------------------------------------------ bounds
MaxOps == 4
MaxGrants == 1
MaxProjects == 2

\* --------------------------------------------------------------- constants
FREE_TIER_STARTING_CREDITS == 10
max_attempts == 3

CREDIT_COSTS ==
  [create_project |-> 5, small_edit |-> 1, medium_edit |-> 3, large_edit |-> 10,
   rebuild |-> 1, rollback |-> 3, export |-> 20, publish |-> 50]

Workers == {"w1", "w2"}
Users == {"alice", "bob"}
GrantAmounts == {2}
NULL == "null"

\* Python's None where a log text is expected (a text is a sequence of
\* tokens).
NoText == <<NULL>>
NoUrl == <<>>
NoLogs == <<>>
NoProject == 0

\* ------------------------------------------------------------- file system
PackageJson == "package.json"
HeroTsx == "components/sections/Hero.tsx"
BuilderPage == "app/builder/page.tsx"
Paths == {PackageJson, HeroTsx, BuilderPage}
\* A path inside the project directory that the template does not have, and
\* one that resolves outside the project directory.
CtaTsx == "components/sections/Cta.tsx"
OutsidePath == "../shared/package.json"

\* The starter template copied by _initialize_project_directory: package.json
\* is modelled by its set of dependencies.
\* A .tsx file is one line: the text of its <h1> title (NULL when it has
\* none) behind a number of "// " prefixes.
TemplateFiles ==
  [f \in Paths |-> IF f = PackageJson THEN {"next"}
                   ELSE IF f = HeroTsx THEN [commented |-> 0, title |-> "Old"]
                   ELSE [commented |-> 0, title |-> NULL]]

ForbiddenDirs == {"node_modules", ".next", ".git", "dist", "build"}

\* forbidden in path_str: a substring test on the relative path
PathContains(f, d) ==
  IF d = "build" THEN f = BuilderPage ELSE FALSE

\* file_path.resolve().relative_to(project_path.resolve()) does not raise.
WithinProject(f) == f \in Paths \cup {CtaTsx}

\* The suffix test alone: every path here has an allowed suffix.
validate_file_type(f) == TRUE

validate_file_for_edit(f) ==
  /\ WithinProject(f)
  /\ ~ \E d \in ForbiddenDirs : PathContains(f, d)

\* --------------------------------------------------------------- variables
VARIABLES
  users,      \* users table: user id -> [credits]
  txns,       \* credit_transactions table, in insertion order
  projects,   \* projects table: project id -> row
  versions,   \* project_versions table: set of rows
  builds,     \* builds table, in insertion order (id is the primary key)
  chat,       \* chat_messages table, in insertion order
  files,      \* projects directory: project id -> (path -> content)
  nextId,     \* source of uuid4 values
  ops,        \* number of requests received so far (signups included)
  grants,     \* number of grant requests started so far
  nworkers,   \* number of worker processes the server runs
  pc,         \* per worker: position in the handler it is serving
  wk,         \* per worker: locals of the handler and its session
  use_postgres,      \* USE_POSTGRES_RATE_LIMIT of the deployment
  clock,             \* the time of day, in seconds
  rate_limits,       \* rate_limits table: set of rows
  rate_limit_store,  \* _rate_limit_store: key -> (window start -> count)
  granted,           \* per key and time: calls answered True so far
  verdict,           \* the last call of check_rate_limit and its answer
  san,               \* a log text and what sanitize_logs made of it
  docker,            \* the containers of the Docker daemon
  jobs,              \* per build request of the runner: where it stands
  runner_procs,      \* number of processes the runner serves requests with
  preview,           \* the last request to the preview route and its answer
  sizing             \* a change handed to the size rules and its class and cost

vars == <<users, txns, projects, versions, builds, chat, files, nextId, ops,
          grants, nworkers, pc, wk, use_postgres, clock, rate_limits,
          rate_limit_store, granted, verdict, san, docker, jobs,
          runner_procs, preview, sizing>>

\* The rate limiter's state.  Fewer requests than RATE_LIMIT_MAX_REQUESTS
\* arrive in the runs of the request handlers below, so the check in the
\* prompt route passes there; the limiter is modelled on its own further
\* down.
limiter == <<use_postgres, clock, rate_limits, rate_limit_store, granted,
             verdict>>

\* The state of the parts that are modelled on their own further down.
runner == <<docker, jobs, runner_procs>>

apart == <<san, runner, preview, sizing>>

\* ------------------------------------------------------------ session state
EmptyPend ==
  [credits |-> <<>>,   \* <<user, new value>> : UPDATE users SET credits
   txns |-> <<>>,      \* rows to INSERT into credit_transactions
   chat |-> <<>>,      \* rows to INSERT into chat_messages
   newProject |-> <<>>,\* rows to INSERT into projects
   projUpd |-> <<>>,   \* <<project, column, value>> : UPDATE projects
   versions |-> <<>>]  \* rows to INSERT into project_versions

NoDiff == [null |-> TRUE, modified |-> {}, added |-> {}, deleted |-> {}]

NoSpec == [prompt |-> NULL, last_update |-> NULL, updated_at |-> 0]

IdleWk ==
  [op |-> "none", user |-> NULL, project |-> NoProject, message |-> NULL,
   target |-> 0, amount |-> 0, reason |-> NULL, pend |-> EmptyPend,
   spec |-> NoSpec, changes |-> <<>>, old_files |-> <<>>, diff |-> NoDiff,
   change_size |-> NULL,
   version |-> 0, build_id |-> 0, attempt |-> 0, calls |-> 0,
   outcomes |-> <<>>, patched |-> <<>>, charged |-> 0, error |-> NULL]

\* --------------------------------------------------------------- helpers
RECURSIVE SumAmounts(_, _)
SumAmounts(s, u) ==
  IF s = <<>> THEN 0
  ELSE (IF Head(s).user_id = u THEN Head(s).amount ELSE 0) + SumAmounts(Tail(s), u)

RECURSIVE ApplyProjUpd(_, _)
ApplyProjUpd(ps, upd) ==
  IF upd = <<>> THEN ps
  ELSE LET h == Head(upd)
           p == h[1]
           row == IF h[2] = "status" THEN [ps[p] EXCEPT !.status = h[3]]
                  ELSE IF h[2] = "preview_url" THEN [ps[p] EXCEPT !.preview_url = h[3]]
                  ELSE [ps[p] EXCEPT !.current_spec = h[3]]
       IN ApplyProjUpd([ps EXCEPT ![p] = row], Tail(upd))

RECURSIVE InsertProjects(_, _)
InsertProjects(ps, new) ==
  IF new = <<>> THEN ps
  ELSE InsertProjects(ps @@ (Head(new).id :> Head(new)), Tail(new))

SeqToSet(s) == {s[i] : i \in DOMAIN s}

\* db.commit(): flush every pending write of the session
FlushUsers(us, pend) ==
  IF pend.credits = <<>> THEN us
  ELSE [us EXCEPT ![pend.credits[1]] = [credits |-> pend.credits[2]]]
FlushTxns(ts, pend) == ts \o pend.txns
FlushChat(cs, pend) == cs \o pend.chat
FlushProjects(ps, pend) == ApplyProjUpd(InsertProjects(ps, pend.newProject), pend.projUpd)
\* A pending version written over the project's rows instead of added.
FlushVersionsInPlace(vs, pend) ==
  {v \in vs : \A n \in SeqToSet(pend.versions) : n.project_id # v.project_id}
    \cup SeqToSet(pend.versions)

FlushVersions(vs, pend) == vs \cup SeqToSet(pend.versions)

Commit(w, pend) ==
  /\ UNCHANGED <<limiter, apart>>
  /\ users' = FlushUsers(users, pend)
  /\ txns' = FlushTxns(txns, pend)
  /\ chat' = FlushChat(chat, pend)
  /\ projects' = FlushProjects(projects, pend)
  /\ versions' = FlushVersions(versions, pend)

NoCommit == UNCHANGED <<users, txns, chat, projects, versions, limiter, apart>>

\* db.commit() where the code has db.rollback().
RollbackFlushes(pend) == Commit("w1", pend)

\* self.db.rollback(): the pending writes of the session are dropped and the
\* database keeps the rows it has.
Rollback(pend) == NoCommit

\* ------------------------------------------ services/rate_limiter.py : state
window_seconds == 60
max_requests == 2
MaxMinute == 3
MaxSecond == 1
MaxChecks == 4
Endpoints == {"prompt"}
Keys == Users \X Endpoints

\* The times of day at which a call is made.
Times == {60 * m + sec : m \in 0..MaxMinute, sec \in 0..MaxSecond}

\* int(now / window_seconds): the fixed window a time falls in.
FixedWindow(now) == now \div window_seconds

NoVerdict == [key |-> NULL, allowed |-> TRUE, before |-> 0, after |-> 0]

\* No call of check_rate_limit has been made: the table and the store are
\* empty.
\* No text has been handed to the sanitizer.
NoSan == [logs |-> NoText, sanitized |-> NoText, again |-> NoText,
          stage |-> "none"]

\* The runner has received no request.
MaxBuilds == 2
Jobs == 1..MaxBuilds
NoJob == [pc |-> "none", project_id |-> NoProject, container_name |-> NULL,
          harmed |-> FALSE, response |-> NULL]

RunnerIdle ==
  /\ docker = {}
  /\ jobs = [j \in Jobs |-> NoJob]
  /\ runner_procs = 1

\* No request has come to the preview route.
NoPreview == [project_id |-> NoProject, build_id |-> 0, token |-> NULL,
              status_code |-> 0, page |-> NULL]

NoSizing == [message |-> NULL, num_files_changed |-> 0, total_lines |-> 0,
             change_size |-> NULL, credit_cost |-> 0]

ApartStart == san = NoSan /\ RunnerIdle /\ preview = NoPreview /\ sizing = NoSizing

LimiterStart ==
  /\ clock = 0
  /\ rate_limits = {}
  /\ rate_limit_store = [k \in Keys |-> <<>>]
  /\ granted = [k \in Keys, t \in Times |-> 0]
  /\ verdict = NoVerdict

\* A request goes to the first idle one of the worker processes that run.
Rank(w) == IF w = "w1" THEN 1 ELSE 2

Dispatch(w) ==
  /\ Rank(w) <= nworkers
  /\ \A v \in Workers : Rank(v) < Rank(w) => pc[v] # "idle"

\* ------------------------------------------------------------------- Init
\* The empty database, served by one worker process.
Init ==
  /\ users = <<>>
  /\ txns = <<>>
  /\ projects = <<>>
  /\ versions = {}
  /\ builds = <<>>
  /\ chat = <<>>
  /\ files = <<>>
  /\ nextId = 1
  /\ ops = 0
  /\ grants = 0
  /\ nworkers = 1
  /\ use_postgres = FALSE
  /\ LimiterStart
  /\ ApartStart
  /\ pc = [w \in Workers |-> "idle"]
  /\ wk = [w \in Workers |-> IdleWk]

\* ------------------------------------------------ routes/auth.py : signup
\* One SELECT, one INSERT and one commit; the user row carries the starting
\* credits and no credit_transactions row is written.
Signup(w) ==
  /\ pc[w] = "idle"
  /\ Dispatch(w)
  /\ ops < MaxOps
  /\ \E u \in Users :
       /\ u \notin DOMAIN users
       /\ users' = users @@ (u :> [credits |-> FREE_TIER_STARTING_CREDITS])
  /\ ops' = ops + 1
  /\ UNCHANGED <<txns, projects, versions, builds, chat, files, nextId,
                 grants, nworkers, pc, wk, limiter, apart>>

\* --------------------------------- services/credit_service.py : grant_credits
GrantRead(w) ==
  /\ pc[w] = "idle"
  /\ Dispatch(w)
  /\ ops < MaxOps
  /\ grants < MaxGrants
  /\ \E u \in DOMAIN users, amount \in GrantAmounts :
       /\ wk' = [wk EXCEPT ![w] =
            [IdleWk EXCEPT !.op = "grant", !.user = u, !.amount = amount,
               !.pend = [EmptyPend EXCEPT
                 !.credits = <<u, users[u].credits + amount>>,
                 !.txns = <<[user_id |-> u, amount |-> amount,
                             transaction_type |-> "grant",
                             project_id |-> NoProject]>>]]]
  /\ pc' = [pc EXCEPT ![w] = "grant_commit"]
  /\ ops' = ops + 1
  /\ grants' = grants + 1
  /\ UNCHANGED nworkers
  /\ UNCHANGED <<files, nextId, builds>>
  /\ NoCommit

GrantCommit(w) ==
  /\ pc[w] = "grant_commit"
  /\ Commit(w, wk[w].pend)
  /\ wk' = [wk EXCEPT ![w].pend = EmptyPend]
  /\ pc' = [pc EXCEPT ![w] = "done"]
  /\ UNCHANGED <<files, nextId, builds, ops, grants, nworkers>>

\* ------------------------------- services/credit_service.py : charge_credits
\* The comparison with <= in place of <: a charge of the whole balance is
\* refused.
InsufficientCreditsStrict(balance, amount) == balance <= amount

InsufficientCredits(balance, amount) == balance < amount

NewBalance(balance, amount) == balance - amount

ChargeTxn(u, amount, p) ==
  [user_id |-> u, amount |-> -amount, transaction_type |-> "charge",
   project_id |-> p]

\* Where each caller goes on once charge_credits has returned.
AfterCharge(op) ==
  IF op = "create" THEN "cp_prepare"
  ELSE IF op = "iterate" THEN "it_version"
  ELSE IF op = "rebuild" THEN "rb_version"
  ELSE "ro_version"

\* Lines 31-58: SELECT the user row, compare, and stage the UPDATE and the
\* INSERT in the session.  Every caller turns InsufficientCreditsError into
\* an INSUFFICIENT_CREDITS answer; iterate_project rolls its session back.
ChargeRead(w) ==
  /\ pc[w] = "charge_read"
  /\ LET u == wk[w].user
         amount == wk[w].amount
         balance == users[u].credits
     IN IF InsufficientCredits(balance, amount)
        THEN /\ pc' = [pc EXCEPT ![w] = "error"]
             /\ wk' = [wk EXCEPT ![w].error = "INSUFFICIENT_CREDITS",
                                 ![w].pend = EmptyPend]
        ELSE /\ pc' = [pc EXCEPT ![w] = "charge_commit"]
             /\ wk' = [wk EXCEPT
                  ![w].pend.credits = <<u, NewBalance(balance, amount)>>,
                  ![w].pend.txns = Append(@, ChargeTxn(u, amount, wk[w].project))]
  /\ UNCHANGED <<files, nextId, builds, ops, grants, nworkers>>
  /\ NoCommit

\* Line 59: db.commit() writes the staged balance, the transaction row and
\* whatever else the caller had pending in the session.
ChargeCommit(w) ==
  /\ pc[w] = "charge_commit"
  /\ Commit(w, wk[w].pend)
  /\ wk' = [wk EXCEPT ![w].pend = EmptyPend, ![w].charged = @ + 1]
  /\ pc' = [pc EXCEPT ![w] = AfterCharge(wk[w].op)]
  /\ UNCHANGED <<files, nextId, builds, ops, grants, nworkers>>

\* ------------------------------------------- log texts
\* A log text is a sequence of tokens.  The words are made of base64url
\* characters, the separators are single characters, and a token that
\* starts with a quote stands for a stretch of output that no pattern of
\* the sanitizer matches.  <<>> is the empty text.
Jwt == "eyJhbGciOiJIUzI1NiJ9"
Redacted == "[REDACTED]"

\* ------------------------------------------- runner answers (build_service)
LineOk == "'next build' compiled successfully"
LineMissingLodash == "'lodash' is missing. Error: Cannot find module 'lodash'"
LineMissingAxios == "'axios' is missing. Error: Cannot find module 'axios'"
LineLintHero == "'components/sections/Hero.tsx' 1:5 error 'unused' is assigned a value but never used"
LineLintBuilder == "'app/builder/page.tsx' 1:5 error 'unused' is assigned a value but never used"
LineTypeError == "'Type error': TS2322 in 'lib/db.ts'"

LogOk == <<LineOk>>
LogMissingLodash == <<LineMissingLodash>>
\* The failing build echoes the registry credentials of its environment.
LogMissingAxios == <<"password", "=", "hunter2", " ", LineMissingAxios>>
LogLintHero == <<LineLintHero>>
LogLintBuilder == <<LineLintBuilder>>
LogTypeError == <<LineTypeError, " ", "password", "=", "hunter2">>

MissingModuleOutcomes == {"missing_lodash", "missing_axios"}

RunnerOutcomes == {"ok", "ok_text", "timeout"} \cup MissingModuleOutcomes

\* validate_build / repair_build: (success, results) for each answer of the
\* runner.  "ok" is the answer of src/apps/runner for exit code 0 (error is
\* null); "ok_text" is a successful answer that carries an error text.
RunnerResult(outcome, timeoutText) ==
  IF outcome = "ok" THEN
    [success |-> TRUE, logs |-> LogOk, lint_output |-> <<>>, build_output |-> LogOk, error |-> NoText]
  ELSE IF outcome = "ok_text" THEN
    [success |-> TRUE, logs |-> LogOk, lint_output |-> <<>>, build_output |-> LogOk, error |-> <<"warnings">>]
  ELSE IF outcome = "missing_lodash" THEN
    [success |-> FALSE, logs |-> LogMissingLodash, lint_output |-> <<>>,
     build_output |-> LogMissingLodash, error |-> <<"Build failed">>]
  ELSE IF outcome = "missing_axios" THEN
    [success |-> FALSE, logs |-> LogMissingAxios, lint_output |-> <<>>,
     build_output |-> LogMissingAxios, error |-> <<"Build failed">>]
  ELSE IF outcome = "lint" THEN
    [success |-> FALSE, logs |-> LogLintHero, lint_output |-> LogLintHero,
     build_output |-> <<>>, error |-> <<"Build failed">>]
  ELSE IF outcome = "lint_forbidden" THEN
    [success |-> FALSE, logs |-> LogLintBuilder, lint_output |-> LogLintBuilder,
     build_output |-> <<>>, error |-> <<"Build failed">>]
  ELSE IF outcome = "type" THEN
    [success |-> FALSE, logs |-> LogTypeError, lint_output |-> <<>>,
     build_output |-> LogTypeError, error |-> <<"Build failed">>]
  ELSE IF outcome = "http_error" THEN
    [success |-> FALSE, logs |-> <<"Service Unavailable">>, lint_output |-> <<>>,
     build_output |-> <<>>, error |-> <<"Runner service error: 503">>]
  ELSE IF outcome = "conn_error" THEN
    [success |-> FALSE, logs |-> <<>>, lint_output |-> <<>>, build_output |-> <<>>,
     error |-> <<"Cannot connect to runner service. Is it running?">>]
  ELSE
    [success |-> FALSE, logs |-> <<>>, lint_output |-> <<>>, build_output |-> <<>>,
     error |-> <<timeoutText>>]

validate_build(outcome) == RunnerResult(outcome, "Build request timeout after 360s")

repair_build(outcome) == RunnerResult(outcome, "Repair request timeout after 360s")

\* ------------------------------------------ services/log_sanitizer.py
\* re.sub on None raises TypeError.
SanitizeRaises(text) == text = NoText

\* SECRET_PATTERNS, by keyword and in list order.  The other keywords of
\* the list (api_key, secret, jwt_secret, private_key, access_token) occur
\* in no text made of these tokens.
SECRET_PATTERNS == <<"password", "token", "authorization">>

\* re.IGNORECASE
Lower(tok) == IF tok = "Authorization" THEN "authorization" ELSE tok

\* ["\s:=]
IsSep(tok) == tok \in {":", "=", " ", "\""}

\* [^\s"']
Words == {"password", "token", "Authorization", "Bearer", "hunter2", Jwt}
IsGroup(tok) == tok \in Words \cup {":", "=", Redacted}

\* The number of characters of a word.
TokLen(tok) ==
  IF tok = "password" THEN 8 ELSE IF tok = "token" THEN 5
  ELSE IF tok = "Authorization" THEN 13 ELSE IF tok = "Bearer" THEN 6
  ELSE IF tok = "hunter2" THEN 7 ELSE 20

\* The last index of the run of separators that starts at i (i - 1 when
\* text[i] is none).
RECURSIVE SepEnd(_, _)
SepEnd(text, i) ==
  IF i <= Len(text) /\ IsSep(text[i]) THEN SepEnd(text, i + 1) ELSE i - 1

RECURSIVE GroupEnd(_, _)
GroupEnd(text, i) ==
  IF i <= Len(text) /\ IsGroup(text[i]) THEN GroupEnd(text, i + 1) ELSE i - 1

\* The last index of the match of keyword["\s:=]+([^\s"']+) that starts at
\* i, 0 when there is none.  ["\s:=]+ is greedy and gives separators back
\* to the group when nothing else can start it.
MatchEnd(text, i, keyword) ==
  IF Lower(text[i]) # keyword THEN 0
  ELSE LET n == SepEnd(text, i + 1)
           given == {j \in (i + 1)..(n - 1) : IsGroup(text[j + 1])}
       IN IF n = i THEN 0
          ELSE IF n < Len(text) /\ IsGroup(text[n + 1]) THEN GroupEnd(text, n + 1)
          ELSE IF given = {} THEN 0
          ELSE GroupEnd(text, (CHOOSE j \in given : \A k \in given : k <= j) + 1)

\* m.group(0) + '=[REDACTED]': the replacement without the split.
ReplacementAppends(m) ==
  IF \E k \in DOMAIN m : m[k] = "=" THEN m \o <<"=", Redacted>> ELSE <<Redacted>>

\* m.group(0).split('=')[0] + '=[REDACTED]' if '=' in m.group(0)
\* else '[REDACTED]'
Replacement(m) ==
  IF \E k \in DOMAIN m : m[k] = "="
  THEN LET first == CHOOSE k \in DOMAIN m :
                      m[k] = "=" /\ \A j \in 1..(k - 1) : m[j] # "="
       IN SubSeq(m, 1, first - 1) \o <<"=", Redacted>>
  ELSE <<Redacted>>

\* re.sub(pattern, ..., text) from index i on.
RECURSIVE SubPattern(_, _, _)
SubPattern(text, i, keyword) ==
  IF i > Len(text) THEN <<>>
  ELSE LET e == MatchEnd(text, i, keyword)
       IN IF e = 0 THEN <<text[i]>> \o SubPattern(text, i + 1, keyword)
          ELSE Replacement(SubSeq(text, i, e)) \o SubPattern(text, e + 1, keyword)

RECURSIVE SpaceEnd(_, _)
SpaceEnd(text, i) ==
  IF i <= Len(text) /\ text[i] = " " THEN SpaceEnd(text, i + 1) ELSE i - 1

RECURSIVE WordEnd(_, _)
WordEnd(text, i) ==
  IF i <= Len(text) /\ text[i] \in Words THEN WordEnd(text, i + 1) ELSE i - 1

RECURSIVE Chars(_, _, _)
Chars(text, i, e) == IF i > e THEN 0 ELSE TokLen(text[i]) + Chars(text, i + 1, e)

\* The last index of the match of Bearer\s+([A-Za-z0-9_-]{20,}) at i, or 0.
JwtEnd(text, i) ==
  IF text[i] # "Bearer" THEN 0
  ELSE LET n == SpaceEnd(text, i + 1)
           e == WordEnd(text, n + 1)
       IN IF n = i \/ Chars(text, n + 1, e) < 20 THEN 0 ELSE e

RECURSIVE SubJwt(_, _)
SubJwt(text, i) ==
  IF i > Len(text) THEN <<>>
  ELSE LET e == JwtEnd(text, i)
       IN IF e = 0 THEN <<text[i]>> \o SubJwt(text, i + 1)
          ELSE <<"Bearer", " ", Redacted>> \o SubJwt(text, e + 1)

RECURSIVE SubPatterns(_, _)
SubPatterns(text, patterns) ==
  IF patterns = <<>> THEN text
  ELSE SubPatterns(SubPattern(text, 1, Head(patterns)), Tail(patterns))

\* Lines 18-41: the secret patterns in list order, then the JWT pattern.
sanitize_logs(text) == SubJwt(SubPatterns(text, SECRET_PATTERNS), 1)

\* ------------------------------------------ services/repair_service.py
\* re.search of a diagnostic in the text.
Mentions(text, lines) == \E i \in DOMAIN text : text[i] \in lines

analyze_failure(build_logs, lint_output, build_output) ==
  LET all_logs == build_logs \o lint_output \o build_output
  IN IF Mentions(all_logs, {LineMissingLodash, LineMissingAxios})
       THEN [error_type |-> "missing_dependency", fixable |-> TRUE]
     ELSE IF Mentions(all_logs, {LineTypeError})
       THEN [error_type |-> "type_error", fixable |-> FALSE]
     ELSE IF Mentions(all_logs, {LineLintHero, LineLintBuilder})
       THEN [error_type |-> "lint_error", fixable |-> TRUE]
     ELSE [error_type |-> "unknown", fixable |-> FALSE]

\* re.search(r"Cannot find module ['\"]([^'\"]+)['\"]", build_logs), then
\* the base name of the module.
MissingModule(build_logs) ==
  IF Mentions(build_logs, {LineMissingLodash}) THEN "lodash"
  ELSE IF Mentions(build_logs, {LineMissingAxios}) THEN "axios"
  ELSE NULL

\* The file a lint diagnostic of the logs names.
LintFile(build_logs) ==
  IF Mentions(build_logs, {LineLintHero}) THEN HeroTsx
  ELSE IF Mentions(build_logs, {LineLintBuilder}) THEN BuilderPage
  ELSE NULL

\* The msg group of r"(\d+):(\d+)\s+error\s+(.+?)\s+": the lazy group ends at
\* the first white space, so it is the first word of the diagnostic.
LintMsg(build_logs) ==
  IF Mentions(build_logs, {LineLintHero, LineLintBuilder}) THEN "'unused'" ELSE NULL

\* "is assigned a value but never used" in msg
NeverUsedIn(msg) == msg = "is assigned a value but never used"

\* A generator that adds the dependency without looking whether package.json
\* lists it already.
generate_repair_patch_unconditional(error_analysis, fs, build_logs) ==
  IF ~ error_analysis.fixable THEN <<>>
  ELSE IF error_analysis.error_type = "missing_dependency" THEN
    IF PackageJson \in DOMAIN fs /\ MissingModule(build_logs) # NULL
    THEN << <<PackageJson, fs[PackageJson] \cup {MissingModule(build_logs)}>> >>
    ELSE <<>>
  ELSE <<>>

\* A generator that writes a dependencies table holding the missing module
\* alone.
generate_repair_patch_replacing(error_analysis, fs, build_logs) ==
  IF ~ error_analysis.fixable THEN <<>>
  ELSE IF error_analysis.error_type = "missing_dependency" THEN
    IF /\ PackageJson \in DOMAIN fs
       /\ MissingModule(build_logs) # NULL
       /\ MissingModule(build_logs) \notin fs[PackageJson]
    THEN << <<PackageJson, {MissingModule(build_logs)}>> >>
    ELSE <<>>
  ELSE <<>>

\* The patch as a sequence of <<path, new content>>; <<>> stands for None.
generate_repair_patch(error_analysis, fs, build_logs) ==
  IF ~ error_analysis.fixable THEN <<>>
  ELSE IF error_analysis.error_type = "missing_dependency" THEN
    IF /\ PackageJson \in DOMAIN fs
       /\ MissingModule(build_logs) # NULL
       /\ MissingModule(build_logs) \notin fs[PackageJson]
    THEN << <<PackageJson, fs[PackageJson] \cup {MissingModule(build_logs)}>> >>
    ELSE <<>>
  ELSE IF error_analysis.error_type = "lint_error" THEN
    IF LintFile(build_logs) \in DOMAIN fs /\ NeverUsedIn(LintMsg(build_logs))
    THEN << <<LintFile(build_logs),
              [fs[LintFile(build_logs)] EXCEPT !.commented = @ + 1]>> >>
    ELSE <<>>
  ELSE <<>>

\* ----------------------- services/project_orchestrator.py : the build loop
\* build.build_logs or "": the log text without the repair notes appended
\* to it by the loop.
LogText(build_logs) == IF build_logs = NoLogs THEN <<>> ELSE build_logs[1]

PreviewUrl(project_id, build_id) ==
  <<"http://localhost:3000", "preview", project_id, build_id>>

\* A row whose attempt_number is counted on from max_attempts.
NewBuildPastBound(build_id, project_id, version_id, attempt) ==
  [id |-> build_id, project_id |-> project_id, version_id |-> version_id,
   status |-> IF attempt = 1 THEN "building" ELSE "repairing",
   attempt_number |-> attempt + max_attempts,
   build_logs |-> NoLogs, lint_output |-> NoText, build_output |-> NoText,
   error_message |-> NoText, preview_url |-> NoUrl, completed_at |-> NULL]

NewBuild(build_id, project_id, version_id, attempt) ==
  [id |-> build_id, project_id |-> project_id, version_id |-> version_id,
   status |-> IF attempt = 1 THEN "building" ELSE "repairing",
   attempt_number |-> attempt,
   build_logs |-> NoLogs, lint_output |-> NoText, build_output |-> NoText,
   error_message |-> NoText, preview_url |-> NoUrl, completed_at |-> NULL]

\* A builds table without the primary key: every INSERT goes through.
PrimaryKeyUnchecked(bs, build_id) == FALSE

\* INSERT of a row whose primary key is already in the table fails.
PrimaryKeyViolation(bs, build_id) == \E i \in DOMAIN bs : bs[i].id = build_id

\* UPDATE builds SET ... WHERE id = build_id
UpdateBuild(bs, build_id, new) ==
  [i \in DOMAIN bs |-> IF bs[i].id = build_id THEN new ELSE bs[i]]

BuildRow(bs, build_id) == bs[CHOOSE i \in DOMAIN bs : bs[i].id = build_id]

\* The runner's answer stored as it came.
WithResultsRaw(row, res) ==
  [row EXCEPT !.build_logs = <<res.logs>>,
              !.lint_output = res.lint_output,
              !.build_output = res.build_output,
              !.error_message = res.error]

\* Lines 384-389 and 442-447: the four texts of the runner's answer, each
\* through sanitize_logs.
WithResults(row, res) ==
  [row EXCEPT !.build_logs = <<sanitize_logs(res.logs)>>,
              !.lint_output = sanitize_logs(res.lint_output),
              !.build_output = sanitize_logs(res.build_output),
              !.error_message = sanitize_logs(res.error)]

Succeeded(row) ==
  [row EXCEPT !.status = "success", !.completed_at = "now",
              !.preview_url = PreviewUrl(row.project_id, row.id)]

Failed(row) == [row EXCEPT !.status = "failed", !.completed_at = "now"]

\* Lines 366-381: top of the while loop.  A Build row with the loop's
\* build_id is added and committed, then the runner's /build is called.
BuildInsert(w) ==
  /\ pc[w] = "bl_insert"
  /\ IF wk[w].attempt > max_attempts
     THEN /\ pc' = [pc EXCEPT ![w] = "finish"]
          /\ UNCHANGED <<builds, wk>>
          /\ NoCommit
     ELSE IF PrimaryKeyViolation(builds, wk[w].build_id)
     THEN /\ pc' = [pc EXCEPT ![w] = "error"]
          /\ wk' = [wk EXCEPT ![w].error = "INTERNAL_ERROR", ![w].pend = EmptyPend]
          /\ UNCHANGED builds
          /\ NoCommit
     ELSE /\ builds' = Append(builds, NewBuild(wk[w].build_id, wk[w].project,
                                               wk[w].version, wk[w].attempt))
          /\ Commit(w, wk[w].pend)
          /\ wk' = [wk EXCEPT ![w].pend = EmptyPend, ![w].calls = @ + 1]
          /\ pc' = [pc EXCEPT ![w] = "bl_build_wait"]
  /\ UNCHANGED <<files, nextId, ops, grants, nworkers>>

\* The shared tail of lines 383-399 and 441-457: store the sanitized
\* results, then commit success or failure.
\* Lines 381-399 and 466-467: the runner's answer to /build.
BuildResponse(w) ==
  /\ pc[w] = "bl_build_wait"
  /\ \E outcome \in RunnerOutcomes :
       LET res == validate_build(outcome)
           row == WithResults(BuildRow(builds, wk[w].build_id), res)
       IN IF SanitizeRaises(res.error)
          THEN /\ pc' = [pc EXCEPT ![w] = "error"]
               /\ wk' = [wk EXCEPT ![w].error = "INTERNAL_ERROR",
                                   ![w].outcomes = Append(@, outcome)]
               /\ UNCHANGED builds
          ELSE IF res.success
          THEN /\ builds' = UpdateBuild(builds, wk[w].build_id, Succeeded(row))
               /\ wk' = [wk EXCEPT ![w].outcomes = Append(@, outcome)]
               /\ pc' = [pc EXCEPT ![w] = "finish"]
          ELSE /\ builds' = UpdateBuild(builds, wk[w].build_id, Failed(row))
               /\ wk' = [wk EXCEPT ![w].outcomes = Append(@, outcome)]
               /\ pc' = [pc EXCEPT ![w] =
                    IF wk[w].attempt < max_attempts THEN "bl_repair" ELSE "finish"]
  /\ UNCHANGED <<files, nextId, ops, grants, nworkers>>
  /\ NoCommit

\* Lines 416-427: the files of the patch are validated and written one by
\* one; the loop stops at the first that may not be edited.
RECURSIVE apply_repair_patch(_, _)
apply_repair_patch(fs, repair_patch) ==
  IF repair_patch = <<>> THEN [repair_success |-> TRUE, fs |-> fs]
  ELSE LET rel_path == Head(repair_patch)[1]
           new_content == Head(repair_patch)[2]
       IN IF ~ validate_file_for_edit(rel_path)
          THEN [repair_success |-> FALSE, fs |-> fs]
          ELSE apply_repair_patch((rel_path :> new_content) @@ fs,
                                  Tail(repair_patch))

\* Lines 402-439 and 460-467: analyse the failure, generate and apply the
\* repair patch, then call the runner's /repair.
Repair(w) ==
  /\ pc[w] = "bl_repair"
  /\ LET p == wk[w].project
         row == BuildRow(builds, wk[w].build_id)
         error_analysis == analyze_failure(LogText(row.build_logs), row.lint_output,
                                           row.build_output)
         repair_patch == generate_repair_patch(error_analysis, files[p],
                                               LogText(row.build_logs))
     IN IF repair_patch = <<>>
        THEN /\ pc' = [pc EXCEPT ![w] = "finish"]
             /\ UNCHANGED <<builds, files, wk>>
        ELSE IF ~ apply_repair_patch(files[p], repair_patch).repair_success
        THEN /\ files' = [files EXCEPT
                  ![p] = apply_repair_patch(files[p], repair_patch).fs]
             /\ builds' = UpdateBuild(builds, wk[w].build_id,
                  [row EXCEPT !.build_logs = Append(@, <<"REPAIR ATTEMPT FAILED">>)])
             /\ pc' = [pc EXCEPT ![w] = "finish"]
             /\ UNCHANGED wk
        ELSE /\ files' = [files EXCEPT
                  ![p] = apply_repair_patch(files[p], repair_patch).fs]
             /\ builds' = UpdateBuild(builds, wk[w].build_id,
                  [row EXCEPT !.build_logs = Append(@, <<"REPAIR ATTEMPT">>)])
             /\ wk' = [wk EXCEPT ![w].calls = @ + 1,
                                 ![w].patched = Append(@, repair_patch[1][1])]
             /\ pc' = [pc EXCEPT ![w] = "bl_repair_wait"]
  /\ UNCHANGED <<nextId, ops, grants, nworkers>>
  /\ NoCommit

\* Lines 435-459: the runner's answer to /repair.
RepairResponse(w) ==
  /\ pc[w] = "bl_repair_wait"
  /\ \E outcome \in RunnerOutcomes :
       LET res == repair_build(outcome)
           row == WithResults(BuildRow(builds, wk[w].build_id), res)
       IN IF SanitizeRaises(res.error)
          THEN /\ pc' = [pc EXCEPT ![w] = "error"]
               /\ wk' = [wk EXCEPT ![w].error = "INTERNAL_ERROR",
                                   ![w].outcomes = Append(@, outcome)]
               /\ UNCHANGED builds
          ELSE IF res.success
          THEN /\ builds' = UpdateBuild(builds, wk[w].build_id, Succeeded(row))
               /\ wk' = [wk EXCEPT ![w].outcomes = Append(@, outcome)]
               /\ pc' = [pc EXCEPT ![w] = "finish"]
          ELSE /\ builds' = UpdateBuild(builds, wk[w].build_id, Failed(row))
               /\ wk' = [wk EXCEPT ![w].outcomes = Append(@, outcome),
                                   ![w].attempt = @ + 1]
               /\ pc' = [pc EXCEPT ![w] = "bl_insert"]
  /\ UNCHANGED <<files, nextId, ops, grants, nworkers>>
  /\ NoCommit

\* ------------------------------------------- services/diff_service.py
MsgChangeTitle == "change hero title to Welcome"
MsgChangeColor == "change hero color to red"
MsgUnsupported == "please make it prettier"
Messages == {MsgChangeTitle, MsgChangeColor, MsgUnsupported}

\* Messages that the edit grammar does not accept, for the size rules.
MsgAddSection == "Add a pricing section"
MsgRefactor == "Refactor the layout"
MsgUpdateComponent == "Update component Hero"
MsgRemoveMajor == "remove the major banner"

\* A prompt of the second form of the edit grammar; the text to replace is
\* taken from prompt.lower().
MsgUpdateWelcome == "Update welcome to Fresh"

\* re.search(r'change\s+(\w+)\s+(\w+)\s+to\s+"?([^"]+)"?', prompt.lower())
ParseChange(prompt) ==
  IF prompt = MsgChangeTitle
    THEN [match |-> TRUE, component |-> "hero", field |-> "title", value |-> "welcome"]
  ELSE IF prompt = MsgChangeColor
    THEN [match |-> TRUE, component |-> "hero", field |-> "color", value |-> "red"]
  ELSE [match |-> FALSE, component |-> NULL, field |-> NULL, value |-> NULL]

\* The first of the search paths that exists: component.capitalize() + ".tsx"
\* under components/sections.
find_component_file(fs, component) ==
  IF component = "hero" /\ HeroTsx \in DOMAIN fs THEN HeroTsx ELSE NULL

\* re.search(r'update\s+"?([^"]+)"?\s+to\s+"?([^"]+)"?', prompt.lower())
ParseUpdate(prompt) ==
  IF prompt = MsgUpdateWelcome
    THEN [match |-> TRUE, old_text |-> "welcome", new_text |-> "fresh"]
  ELSE [match |-> FALSE, old_text |-> NULL, new_text |-> NULL]

\* Lines 266-276: the .tsx files of the project that pass the editable-file
\* check and hold old_text.
FilesHolding(fs, old_text) ==
  {f \in DOMAIN fs \ {PackageJson} :
     validate_file_for_edit(f) /\ fs[f].title = old_text}

\* (changes, error_message): changes is a sequence of <<path, new content>>.
generate_changes_from_prompt(prompt, fs) ==
  LET m == ParseChange(prompt)
      u == ParseUpdate(prompt)
      component_file == find_component_file(fs, m.component)
  IN IF ~ m.match /\ u.match THEN
       IF FilesHolding(fs, u.old_text) = {}
         THEN [changes |-> <<>>, error |-> "Text not found in any files"]
       ELSE LET f == CHOOSE g \in FilesHolding(fs, u.old_text) : TRUE
            IN [changes |-> << <<f, [fs[f] EXCEPT !.title = u.new_text]>> >>,
                error |-> NULL]
     ELSE IF m.match THEN
       IF component_file = NULL
         THEN [changes |-> <<>>, error |-> "Component not found"]
       ELSE IF ~ validate_file_for_edit(component_file)
         THEN [changes |-> <<>>, error |-> "Cannot edit"]
       ELSE IF m.field = "title" THEN
         IF fs[component_file].title # NULL
           THEN [changes |-> << <<component_file,
                                  [fs[component_file] EXCEPT !.title = m.value]>> >>,
                 error |-> NULL]
           ELSE [changes |-> <<>>, error |-> "No title found"]
       ELSE [changes |-> <<>>, error |-> NULL]
     ELSE [changes |-> <<>>, error |-> "Prompt does not match any supported patterns"]

WriteFile(fs, f, content) == (f :> content) @@ fs

\* Write back the saved originals.
RevertFiles(fs, applied_files) ==
  [f \in DOMAIN fs |-> IF f \in DOMAIN applied_files THEN applied_files[f] ELSE fs[f]]

\* The apply loop of validate_and_apply_changes (lines 325-341).
RECURSIVE apply_changes(_, _, _)
apply_changes(fs, changes, applied_files) ==
  IF changes = <<>> THEN [ok |-> TRUE, fs |-> fs, applied_files |-> applied_files]
  ELSE LET f == Head(changes)[1]
           new_content == Head(changes)[2]
       IN IF ~ validate_file_for_edit(f)
          THEN [ok |-> FALSE, fs |-> RevertFiles(fs, applied_files), applied_files |-> <<>>]
          ELSE apply_changes(WriteFile(fs, f, new_content), Tail(changes),
                 IF f \in DOMAIN fs THEN (f :> fs[f]) @@ applied_files
                 ELSE applied_files)

LintResults == {"pass", "fail", "unavailable"}

\* (success, files afterwards) of validate_and_apply_changes.
validate_and_apply_changes(changes, fs, lint) ==
  LET r == apply_changes(fs, changes, <<>>)
  IN IF ~ r.ok THEN [success |-> FALSE, fs |-> r.fs]
     ELSE IF lint = "fail"
       THEN [success |-> FALSE, fs |-> RevertFiles(r.fs, r.applied_files)]
     ELSE [success |-> TRUE, fs |-> r.fs]

compute_file_changes(old_files, new_files) ==
  [null |-> FALSE,
   modified |-> {f \in DOMAIN old_files \cap DOMAIN new_files :
                   old_files[f] # new_files[f]},
   added |-> DOMAIN new_files \ DOMAIN old_files,
   deleted |-> DOMAIN old_files \ DOMAIN new_files]

\* ------------------- services/project_orchestrator.py : change size rules
CHANGE_SIZE_RULES ==
  << [size |-> "small", bounded |-> TRUE, max_files |-> 1, max_lines |-> 50,
      patterns |-> {"change", "update", "replace", "fix typo"}],
     [size |-> "medium", bounded |-> TRUE, max_files |-> 3, max_lines |-> 200,
      patterns |-> {"add", "remove", "modify", "update component"}],
     [size |-> "large", bounded |-> FALSE, max_files |-> 0, max_lines |-> 0,
      patterns |-> {"refactor", "restructure", "redesign", "major"}] >>

\* The keywords that occur in message.lower().
KeywordsIn(message) ==
  IF message \in {MsgChangeTitle, MsgChangeColor} THEN {"change"}
  ELSE IF message = MsgAddSection THEN {"add"}
  ELSE IF message = MsgRefactor THEN {"refactor"}
  ELSE IF message = MsgUpdateComponent THEN {"update", "update component"}
  ELSE IF message = MsgRemoveMajor THEN {"remove", "major"}
  ELSE IF message = MsgUpdateWelcome THEN {"update"}
  ELSE {}

\* diff.count("\n+") + diff.count("\n-") of a one-line replacement: the
\* "+++" header line, the removed line and the added line.
DiffLines(file_changes) == 3 * Cardinality(file_changes.modified)

\* Rules that apply only when a keyword occurs and the limits hold as well.
RECURSIVE FirstRuleConjunctive(_, _, _, _)
FirstRuleConjunctive(rules, message, num_files_changed, total_lines) ==
  IF rules = <<>> THEN "medium"
  ELSE LET r == Head(rules)
           matches_pattern == r.patterns \cap KeywordsIn(message) # {}
           within_limits == \/ ~ r.bounded
                            \/ /\ num_files_changed <= r.max_files
                               /\ total_lines <= r.max_lines
       IN IF matches_pattern /\ within_limits THEN r.size
          ELSE FirstRuleConjunctive(Tail(rules), message, num_files_changed,
                                    total_lines)

RECURSIVE FirstRule(_, _, _, _)
FirstRule(rules, message, num_files_changed, total_lines) ==
  IF rules = <<>> THEN "medium"
  ELSE LET r == Head(rules)
           matches_pattern == r.patterns \cap KeywordsIn(message) # {}
           within_limits == \/ ~ r.bounded
                            \/ /\ num_files_changed <= r.max_files
                               /\ total_lines <= r.max_lines
       IN IF matches_pattern \/ within_limits THEN r.size
          ELSE FirstRule(Tail(rules), message, num_files_changed, total_lines)

determine_change_size_deterministic(message, file_changes) ==
  FirstRule(CHANGE_SIZE_RULES, message,
            Cardinality(file_changes.modified) + Cardinality(file_changes.added)
              + Cardinality(file_changes.deleted),
            DiffLines(file_changes))

\* Every class charged as a medium edit.
EditCostMedium(change_size) == CREDIT_COSTS.medium_edit

EditCost(change_size) ==
  IF change_size = "small" THEN CREDIT_COSTS.small_edit
  ELSE IF change_size = "large" THEN CREDIT_COSTS.large_edit
  ELSE CREDIT_COSTS.medium_edit

\* ----------------------------- services/project_orchestrator.py : versions
generate_initial_spec(prompt) ==
  [prompt |-> prompt, last_update |-> NULL, updated_at |-> 0]

update_spec_from_message(current_spec, message, now) ==
  [current_spec EXCEPT !.last_update = message, !.updated_at = now]

Max(S) == CHOOSE x \in S : \A y \in S : y <= x

\* The highest committed number itself, without the + 1.
NextVersionNumberStuck(vs, project_id) ==
  LET nums == {v.version_number : v \in {x \in vs : x.project_id = project_id}}
  IN IF nums = {} THEN 1 ELSE Max(nums)

\* _create_version, lines 338-342: the number after the highest committed one.
NextVersionNumber(vs, project_id) ==
  LET nums == {v.version_number : v \in {x \in vs : x.project_id = project_id}}
  IN IF nums = {} THEN 1 ELSE Max(nums) + 1

\* A version that stores the spec as it was generated from the first prompt.
create_version_initial_spec(vs, id, project_id, spec_snapshot, created_by, code_diff) ==
  [id |-> id, project_id |-> project_id,
   version_number |-> NextVersionNumber(vs, project_id),
   spec_snapshot |-> generate_initial_spec(spec_snapshot.prompt),
   code_diff |-> code_diff, created_by |-> created_by]

create_version(vs, id, project_id, spec_snapshot, created_by, code_diff) ==
  [id |-> id, project_id |-> project_id,
   version_number |-> NextVersionNumber(vs, project_id),
   spec_snapshot |-> spec_snapshot, code_diff |-> code_diff,
   created_by |-> created_by]

\* ------------------------ services/project_orchestrator.py : create_project
StartCreate(w) ==
  /\ pc[w] = "idle"
  /\ Dispatch(w)
  /\ ops < MaxOps
  /\ Cardinality(DOMAIN files) < MaxProjects
  /\ \E u \in DOMAIN users :
       wk' = [wk EXCEPT ![w] = [IdleWk EXCEPT !.op = "create", !.user = u,
                 !.message = "Landing page",
                 !.amount = CREDIT_COSTS.create_project]]
  /\ pc' = [pc EXCEPT ![w] = "charge_read"]
  /\ ops' = ops + 1
  /\ UNCHANGED <<files, nextId, builds, grants, nworkers>>
  /\ NoCommit

\* Lines 82-103 and 471-488: the Project and its first Version are added to
\* the session and the project directory is copied from the template.
CreatePrepare(w) ==
  /\ pc[w] = "cp_prepare"
  /\ \E template_exists \in BOOLEAN :
       LET project_id == nextId
           spec == generate_initial_spec(wk[w].message)
           project == [id |-> project_id, user_id |-> wk[w].user,
                       current_spec |-> spec, status |-> "building",
                       preview_url |-> NoUrl]
           version == create_version(versions, nextId + 1, project_id, spec,
                                     "system", NoDiff)
       IN IF ~ template_exists
          THEN /\ pc' = [pc EXCEPT ![w] = "error"]
               /\ wk' = [wk EXCEPT ![w].error = "TEMPLATE_NOT_FOUND",
                                   ![w].pend = EmptyPend]
               /\ UNCHANGED <<files, nextId>>
          ELSE /\ files' = (project_id :> TemplateFiles) @@ files
               /\ nextId' = nextId + 3
               /\ wk' = [wk EXCEPT ![w].project = project_id,
                                   ![w].version = version.id,
                                   ![w].build_id = nextId + 2,
                                   ![w].attempt = 1,
                                   ![w].pend.newProject = <<project>>,
                                   ![w].pend.versions = <<version>>]
               /\ pc' = [pc EXCEPT ![w] = "bl_insert"]
  /\ UNCHANGED <<builds, ops, grants, nworkers>>
  /\ NoCommit

\* ----------------------- services/project_orchestrator.py : iterate_project
\* Lines 129-165 (and 181-195 when there is nothing to apply).
iterate_project(w, u, p, message) ==
  LET w0 == [IdleWk EXCEPT !.op = "iterate", !.user = u, !.project = p,
                           !.message = message]
  IN IF p \notin DOMAIN projects
     THEN /\ wk' = [wk EXCEPT ![w] = [w0 EXCEPT !.error = "NOT_FOUND"]]
          /\ pc' = [pc EXCEPT ![w] = "error"]
          /\ UNCHANGED nextId
          /\ NoCommit
     ELSE IF projects[p].user_id # u
     THEN /\ wk' = [wk EXCEPT ![w] = [w0 EXCEPT !.error = "FORBIDDEN"]]
          /\ pc' = [pc EXCEPT ![w] = "error"]
          /\ UNCHANGED nextId
          /\ NoCommit
     ELSE LET old_files == files[p]
              updated_spec == update_spec_from_message(
                                projects[p].current_spec, message, nextId)
              g == generate_changes_from_prompt(message, files[p])
              file_changes == compute_file_changes(old_files, files[p])
              change_size == determine_change_size_deterministic(
                               message, file_changes)
              w1 == [w0 EXCEPT
                       !.old_files = old_files,
                       !.spec = updated_spec,
                       !.changes = g.changes,
                       !.pend.chat = <<[project_id |-> p, user_id |-> u,
                                        role |-> "user", content |-> message]>>,
                       !.pend.projUpd = << <<p, "current_spec", updated_spec>>,
                                          <<p, "status", "building">> >>]
          IN /\ nextId' = nextId + 1
             /\ IF g.error # NULL
                THEN /\ wk' = [wk EXCEPT ![w] =
                           [w0 EXCEPT !.error = "BAD_REQUEST"]]
                     /\ pc' = [pc EXCEPT ![w] = "error"]
                     /\ Rollback(w1.pend)
                ELSE IF g.changes # <<>>
                THEN /\ wk' = [wk EXCEPT ![w] = w1]
                     /\ pc' = [pc EXCEPT ![w] = "it_apply"]
                     /\ NoCommit
                ELSE /\ wk' = [wk EXCEPT ![w] =
                           [w1 EXCEPT !.diff = file_changes,
                                      !.change_size = change_size,
                                      !.amount = EditCost(change_size)]]
                     /\ pc' = [pc EXCEPT ![w] = "charge_read"]
                     /\ NoCommit

StartIterate(w) ==
  /\ pc[w] = "idle"
  /\ Dispatch(w)
  /\ ops < MaxOps
  /\ \E u \in DOMAIN users, p \in DOMAIN projects \cup {NoProject},
        message \in Messages : iterate_project(w, u, p, message)
  /\ ops' = ops + 1
  /\ UNCHANGED <<files, builds, grants, nworkers>>

\* Lines 167-195: apply the changes, run the linter, snapshot the new files
\* and classify the change.
ItApply(w) ==
  /\ pc[w] = "it_apply"
  /\ \E lint \in LintResults :
       LET p == wk[w].project
           r == validate_and_apply_changes(wk[w].changes, files[p], lint)
           file_changes == compute_file_changes(wk[w].old_files, r.fs)
           change_size == determine_change_size_deterministic(
                            wk[w].message, file_changes)
       IN /\ files' = [files EXCEPT ![p] = r.fs]
          /\ IF ~ r.success
             THEN /\ wk' = [wk EXCEPT ![w].error = "BAD_REQUEST",
                                      ![w].pend = EmptyPend]
                  /\ pc' = [pc EXCEPT ![w] = "error"]
                  /\ Rollback(wk[w].pend)
             ELSE /\ wk' = [wk EXCEPT ![w].diff = file_changes,
                                      ![w].change_size = change_size,
                                      ![w].amount = EditCost(change_size)]
                  /\ pc' = [pc EXCEPT ![w] = "charge_read"]
                  /\ NoCommit
  /\ UNCHANGED <<nextId, builds, ops, grants, nworkers>>

\* Lines 217-229: the new Version is added to the session.
ItVersion(w) ==
  /\ pc[w] = "it_version"
  /\ LET p == wk[w].project
         version == create_version(versions, nextId, p, wk[w].spec,
                                   wk[w].user, wk[w].diff)
     IN /\ wk' = [wk EXCEPT ![w].version = version.id,
                            ![w].build_id = nextId + 1,
                            ![w].attempt = 1,
                            ![w].pend.versions = <<version>>]
  /\ nextId' = nextId + 2
  /\ pc' = [pc EXCEPT ![w] = "bl_insert"]
  /\ UNCHANGED <<files, builds, ops, grants, nworkers>>
  /\ NoCommit

\* ----------------------------------- routes/projects.py : rebuild_project
StartRebuild(w) ==
  /\ pc[w] = "idle"
  /\ Dispatch(w)
  /\ ops < MaxOps
  /\ \E u \in DOMAIN users, p \in DOMAIN projects \cup {NoProject} :
       LET w0 == [IdleWk EXCEPT !.op = "rebuild", !.user = u, !.project = p,
                                !.amount = CREDIT_COSTS.rebuild]
       IN IF p \notin DOMAIN projects \/ projects[p].user_id # u
          THEN /\ wk' = [wk EXCEPT ![w] = [w0 EXCEPT !.error = "NOT_FOUND"]]
               /\ pc' = [pc EXCEPT ![w] = "error"]
          ELSE /\ wk' = [wk EXCEPT ![w] = w0]
               /\ pc' = [pc EXCEPT ![w] = "charge_read"]
  /\ ops' = ops + 1
  /\ UNCHANGED <<files, nextId, builds, grants, nworkers>>
  /\ NoCommit

\* order_by(version_number.desc()).first()
LatestVersions(vs, project_id) ==
  {v \in vs : /\ v.project_id = project_id
              /\ \A x \in vs : x.project_id = project_id
                               => x.version_number <= v.version_number}

\* Lines 278-291: the latest version is rebuilt under a new build id.
RbVersion(w) ==
  /\ pc[w] = "rb_version"
  /\ IF LatestVersions(versions, wk[w].project) = {}
     THEN /\ wk' = [wk EXCEPT ![w].error = "NO_VERSION"]
          /\ pc' = [pc EXCEPT ![w] = "error"]
          /\ UNCHANGED nextId
     ELSE /\ \E latest_version \in LatestVersions(versions, wk[w].project) :
               wk' = [wk EXCEPT ![w].version = latest_version.id,
                                ![w].build_id = nextId,
                                ![w].attempt = 1]
          /\ nextId' = nextId + 1
          /\ pc' = [pc EXCEPT ![w] = "bl_insert"]
  /\ UNCHANGED <<files, builds, ops, grants, nworkers>>
  /\ NoCommit

\* ---------------------------------- routes/projects.py : rollback_project
StartRollback(w) ==
  /\ pc[w] = "idle"
  /\ Dispatch(w)
  /\ ops < MaxOps
  /\ \E u \in DOMAIN users, p \in DOMAIN projects \cup {NoProject},
        version_id \in {v.id : v \in versions} \cup {0} :
       LET w0 == [IdleWk EXCEPT !.op = "rollback", !.user = u, !.project = p,
                                !.target = version_id,
                                !.amount = CREDIT_COSTS.rollback]
       IN IF p \notin DOMAIN projects \/ projects[p].user_id # u
          THEN /\ wk' = [wk EXCEPT ![w] = [w0 EXCEPT !.error = "NOT_FOUND"]]
               /\ pc' = [pc EXCEPT ![w] = "error"]
          ELSE /\ wk' = [wk EXCEPT ![w] = w0]
               /\ pc' = [pc EXCEPT ![w] = "charge_read"]
  /\ ops' = ops + 1
  /\ UNCHANGED <<files, nextId, builds, grants, nworkers>>
  /\ NoCommit

\* Lines 330-357: the target's spec is restored and a new Version is added.
RoVersion(w) ==
  /\ pc[w] = "ro_version"
  /\ LET p == wk[w].project
         targets == {v \in versions : v.id = wk[w].target /\ v.project_id = p}
     IN IF targets = {}
        THEN /\ wk' = [wk EXCEPT ![w].error = "NOT_FOUND"]
             /\ pc' = [pc EXCEPT ![w] = "error"]
             /\ UNCHANGED nextId
        ELSE /\ \E target_version \in targets :
                  LET new_version == create_version(versions, nextId, p,
                                       target_version.spec_snapshot,
                                       wk[w].user, target_version.code_diff)
                  IN wk' = [wk EXCEPT
                       ![w].version = new_version.id,
                       ![w].build_id = nextId + 1,
                       ![w].attempt = 1,
                       ![w].pend.projUpd =
                          << <<p, "current_spec", target_version.spec_snapshot>>,
                             <<p, "status", "building">> >>,
                       ![w].pend.versions = <<new_version>>]
             /\ nextId' = nextId + 2
             /\ pc' = [pc EXCEPT ![w] = "bl_insert"]
  /\ UNCHANGED <<files, builds, ops, grants, nworkers>>
  /\ NoCommit

\* ------------------------------------------------ after the build loop
\* The project columns each caller sets from the build it got back:
\* create_project 105-110, iterate_project 231-236, rollback_project
\* 359-363; rebuild_project sets none.
ProjectStatusUpdate(op, p, build) ==
  IF op = "rebuild" THEN <<>>
  ELSE IF build.status = "success"
    THEN << <<p, "status", "ready">>, <<p, "preview_url", build.preview_url>> >>
  ELSE << <<p, "status", "failed">> >>

Finish(w) ==
  /\ pc[w] = "finish"
  /\ Commit(w, [wk[w].pend EXCEPT !.projUpd = @ \o
        ProjectStatusUpdate(wk[w].op, wk[w].project,
                            BuildRow(builds, wk[w].build_id))])
  /\ wk' = [wk EXCEPT ![w].pend = EmptyPend]
  /\ pc' = [pc EXCEPT ![w] = "done"]
  /\ UNCHANGED <<files, nextId, builds, ops, grants, nworkers>>

\* The handler returns its response (or its error) and the session is closed.
Return(w) ==
  /\ pc[w] \in {"done", "error"}
  /\ pc' = [pc EXCEPT ![w] = "idle"]
  /\ wk' = [wk EXCEPT ![w] = IdleWk]
  /\ UNCHANGED <<files, nextId, builds, ops, grants, nworkers>>
  /\ NoCommit

\* ------------------------------------------------- a server in service
\* The database once alice has signed up and her first create_project has
\* returned with a successful build (Signup, StartCreate, ChargeRead,
\* ChargeCommit, CreatePrepare, BuildInsert, BuildResponse, Finish and Return
\* lead from Init to this state), now served by two worker processes.
SeedSpec == generate_initial_spec("Landing page")

SeedVersion == create_version({}, 2, 1, SeedSpec, "system", NoDiff)

SeedBuild == Succeeded(WithResults(NewBuild(3, 1, 2, 1), validate_build("ok_text")))

SeedProject ==
  [id |-> 1, user_id |-> "alice", current_spec |-> SeedSpec, status |-> "ready",
   preview_url |-> SeedBuild.preview_url]

InitServing ==
  /\ users = <<>> @@ ("alice" :> [credits |->
       NewBalance(FREE_TIER_STARTING_CREDITS, CREDIT_COSTS.create_project)])
  /\ txns = <<ChargeTxn("alice", CREDIT_COSTS.create_project, NoProject)>>
  /\ projects = InsertProjects(<<>>, <<SeedProject>>)
  /\ versions = {SeedVersion}
  /\ builds = <<SeedBuild>>
  /\ chat = <<>>
  /\ files = (1 :> TemplateFiles) @@ <<>>
  /\ nextId = 4
  /\ ops = 2
  /\ grants = 0
  /\ nworkers = 2
  /\ use_postgres = FALSE
  /\ LimiterStart
  /\ ApartStart
  /\ pc = [w \in Workers |-> "idle"]
  /\ wk = [w \in Workers |-> IdleWk]

Step(w) ==
  \/ Signup(w)
  \/ GrantRead(w)
  \/ GrantCommit(w)
  \/ ChargeRead(w)
  \/ ChargeCommit(w)
  \/ StartCreate(w)
  \/ CreatePrepare(w)
  \/ StartIterate(w)
  \/ ItApply(w)
  \/ ItVersion(w)
  \/ StartRebuild(w)
  \/ RbVersion(w)
  \/ StartRollback(w)
  \/ RoVersion(w)
  \/ BuildInsert(w)
  \/ BuildResponse(w)
  \/ Repair(w)
  \/ RepairResponse(w)
  \/ Finish(w)
  \/ Return(w)

Next == \E w \in Workers : Step(w)

\* Requests served one at a time, from the empty database.
Spec == Init /\ [][Next]_vars

\* Requests served by two worker processes, whose steps interleave, from
\* InitServing.
SpecConc == InitServing /\ [][Next]_vars

\* ------------------- services/diff_service.py : validate_and_apply_changes
\* validate_and_apply_changes called on its own: the directory of project 1
\* is the template, possibly after a title edit and a dependency repair, and
\* the changes dict holds one or two entries in insertion order.
MaxChanges == 2

ApplyDirs ==
  {[TemplateFiles EXCEPT ![HeroTsx].title = t, ![PackageJson] = deps] :
     t \in {"Old", "welcome"}, deps \in {{"next"}, {"next", "lodash"}}}

NewContent(f) ==
  IF f = PackageJson THEN {"next", "axios"}
  ELSE [commented |-> 0, title |-> "welcome"]

ChangePaths == {PackageJson, HeroTsx, CtaTsx, BuilderPage, OutsidePath}

ApplyChanges ==
  {c \in UNION {[1..n -> {<<f, NewContent(f)>> : f \in ChangePaths}] :
                  n \in 1..MaxChanges} :
     \A i, j \in DOMAIN c : i # j => c[i][1] # c[j][1]}

InitApply ==
  /\ users = <<>>
  /\ txns = <<>>
  /\ projects = <<>>
  /\ versions = {}
  /\ builds = <<>>
  /\ chat = <<>>
  /\ nextId = 1
  /\ ops = 0
  /\ grants = 0
  /\ nworkers = 1
  /\ use_postgres = FALSE
  /\ LimiterStart
  /\ ApartStart
  /\ \E fs \in ApplyDirs, c \in ApplyChanges, op \in {"apply", "patch"} :
       /\ files = (1 :> fs)
       /\ pc = [w \in Workers |->
                  IF w # "w1" THEN "idle"
                  ELSE IF op = "apply" THEN "apply_call" ELSE "patch_call"]
       /\ wk = [w \in Workers |->
                  IF w = "w1"
                  THEN [IdleWk EXCEPT !.op = op, !.project = 1,
                                      !.old_files = fs, !.changes = c]
                  ELSE IdleWk]

ApplyCall(w) ==
  /\ pc[w] = "apply_call"
  /\ \E lint \in LintResults :
       LET p == wk[w].project
           r == validate_and_apply_changes(wk[w].changes, files[p], lint)
       IN /\ files' = [files EXCEPT ![p] = r.fs]
          /\ wk' = [wk EXCEPT ![w].error =
                      IF r.success THEN NULL ELSE "APPLY_FAILED"]
  /\ pc' = [pc EXCEPT ![w] = "apply_done"]
  /\ UNCHANGED <<nextId, builds, ops, grants, nworkers>>
  /\ NoCommit

\* The repair patch loop of the build loop, on a patch of its own.
PatchCall(w) ==
  /\ pc[w] = "patch_call"
  /\ LET p == wk[w].project
         r == apply_repair_patch(files[p], wk[w].changes)
     IN /\ files' = [files EXCEPT ![p] = r.fs]
        /\ wk' = [wk EXCEPT ![w].error =
                    IF r.repair_success THEN NULL ELSE "REPAIR_FAILED"]
  /\ pc' = [pc EXCEPT ![w] = "patch_done"]
  /\ UNCHANGED <<nextId, builds, ops, grants, nworkers>>
  /\ NoCommit

NextApply == \E w \in Workers : ApplyCall(w) \/ PatchCall(w)

SpecApply == InitApply /\ [][NextApply]_vars

\* -------------------------------------------- services/rate_limiter.py
\* check_rate_limit called on its own, at times of day that never go back.
RECURSIVE SumCounts(_)
SumCounts(f) ==
  IF DOMAIN f = {} THEN 0
  ELSE LET x == CHOOSE y \in DOMAIN f : TRUE
       IN f[x] + SumCounts([y \in DOMAIN f \ {x} |-> f[y]])

\* now.replace(second=0, microsecond=0)
\*   - timedelta(seconds=now.second % window_seconds)
PostgresWindowStart(now) ==
  (now - (now % 60)) - ((now % 60) % window_seconds)

RecordsOf(rows, key, window_start) ==
  {r \in rows : /\ r.user_id = key[1]
                /\ r.endpoint = key[2]
                /\ r.window_start = window_start}

\* (answer, table afterwards) of check_rate_limit_postgres.
check_rate_limit_postgres(rows, key, now) ==
  LET window_start == PostgresWindowStart(now)
      found == RecordsOf(rows, key, window_start)
  IN IF found # {}
     THEN LET record == CHOOSE r \in found : TRUE
          IN IF record.request_count >= max_requests
             THEN [allowed |-> FALSE, rows |-> rows]
             ELSE [allowed |-> TRUE,
                   rows |-> (rows \ {record}) \cup
                     {[record EXCEPT !.request_count = @ + 1]}]
     ELSE LET old == {r \in rows :
                        /\ r.user_id = key[1]
                        /\ r.endpoint = key[2]
                        /\ r.window_start < window_start - window_seconds * 2}
          IN [allowed |-> TRUE,
              rows |-> (rows \ old) \cup
                {[user_id |-> key[1], endpoint |-> key[2],
                  window_start |-> window_start, request_count |-> 1]}]

\* (answer, store afterwards) of check_rate_limit_memory.
check_rate_limit_memory(store, key, now) ==
  LET kept == [ts \in {t \in DOMAIN store[key] : now - t < window_seconds}
                 |-> store[key][ts]]
      recent_requests == SumCounts(kept)
      window_start == (now \div window_seconds) * window_seconds
      count == IF window_start \in DOMAIN kept THEN kept[window_start] ELSE 0
  IN IF recent_requests >= max_requests
     THEN [allowed |-> FALSE, store |-> [store EXCEPT ![key] = kept]]
     ELSE [allowed |-> TRUE,
           store |-> [store EXCEPT ![key] = (window_start :> count + 1) @@ kept]]

\* The counter the backend keeps for the key at time now.
PostgresCount(rows, key, now) ==
  LET found == RecordsOf(rows, key, PostgresWindowStart(now))
  IN IF found = {} THEN 0 ELSE (CHOOSE r \in found : TRUE).request_count

MemoryCount(store, key, now) ==
  LET window_start == (now \div window_seconds) * window_seconds
  IN IF window_start \in DOMAIN store[key] THEN store[key][window_start] ELSE 0

NoRequest == UNCHANGED <<users, txns, projects, versions, builds, chat, files,
                         nextId, ops, grants, nworkers, pc, wk>>

Requests == NoRequest /\ UNCHANGED apart

InitRate ==
  /\ users = <<>>
  /\ txns = <<>>
  /\ projects = <<>>
  /\ versions = {}
  /\ builds = <<>>
  /\ chat = <<>>
  /\ files = <<>>
  /\ nextId = 1
  /\ ops = 0
  /\ grants = 0
  /\ nworkers = 1
  /\ pc = [w \in Workers |-> "idle"]
  /\ wk = [w \in Workers |-> IdleWk]
  /\ use_postgres \in BOOLEAN
  /\ LimiterStart
  /\ ApartStart

Granted(g, key, now, allowed) ==
  IF allowed THEN [g EXCEPT ![key, now] = @ + 1] ELSE g

TotalGranted == SumCounts(granted)

\* The calls of the key answered True at the times in T.
GrantedAt(key, T) == SumCounts([t \in T |-> granted[key, t]])

CheckPostgres(key) ==
  /\ use_postgres
  /\ TotalGranted < MaxChecks
  /\ LET r == check_rate_limit_postgres(rate_limits, key, clock)
     IN /\ rate_limits' = r.rows
        /\ granted' = Granted(granted, key, clock, r.allowed)
        /\ verdict' = [key |-> key, allowed |-> r.allowed,
                       before |-> PostgresCount(rate_limits, key, clock),
                       after |-> PostgresCount(r.rows, key, clock)]
  /\ UNCHANGED <<use_postgres, clock, rate_limit_store>>
  /\ Requests

CheckMemory(key) ==
  /\ ~ use_postgres
  /\ TotalGranted < MaxChecks
  /\ LET r == check_rate_limit_memory(rate_limit_store, key, clock)
     IN /\ rate_limit_store' = r.store
        /\ granted' = Granted(granted, key, clock, r.allowed)
        /\ verdict' = [key |-> key, allowed |-> r.allowed,
                       before |-> MemoryCount(rate_limit_store, key, clock),
                       after |-> MemoryCount(r.store, key, clock)]
  /\ UNCHANGED <<use_postgres, clock, rate_limits>>
  /\ Requests

\* Time passes between two calls.
Tick ==
  /\ \E t \in Times : t > clock /\ clock' = t
  /\ UNCHANGED <<use_postgres, rate_limits, rate_limit_store, granted, verdict>>
  /\ Requests

NextRate ==
  \/ \E key \in Keys : CheckPostgres(key)
  \/ \E key \in Keys : CheckMemory(key)
  \/ Tick

SpecRate == InitRate /\ [][NextRate]_vars

\* The two backends side by side: every request is handed to both at the
\* same time of day, each on its own table, and both answers are kept.
CheckBoth(key) ==
  /\ TotalGranted < MaxChecks
  /\ LET p == check_rate_limit_postgres(rate_limits, key, clock)
         m == check_rate_limit_memory(rate_limit_store, key, clock)
     IN /\ rate_limits' = p.rows
        /\ rate_limit_store' = m.store
        /\ granted' = Granted(granted, key, clock, p.allowed \/ m.allowed)
        /\ verdict' = [key |-> key, postgres |-> p.allowed, memory |-> m.allowed]
  /\ UNCHANGED <<use_postgres, clock>>
  /\ Requests

NextBackends ==
  \/ \E key \in Keys : CheckBoth(key)
  \/ Tick

SpecBackends == InitRate /\ [][NextBackends]_vars

\* check_rate_limit served by one or two worker processes.  A route is an
\* async def that calls check_rate_limit without awaiting anything, so one
\* process runs a call from start to end; two processes share the
\* rate_limits table of the database, each through a session of its own,
\* and their calls interleave between the SELECT of lines 41-45 and the
\* commit of line 70.
NoCall == [key |-> NULL, now |-> 0, found |-> FALSE, request_count |-> 0]

InitRace ==
  /\ users = <<>>
  /\ txns = <<>>
  /\ projects = <<>>
  /\ versions = {}
  /\ builds = <<>>
  /\ chat = <<>>
  /\ files = <<>>
  /\ nextId = 1
  /\ ops = 0
  /\ grants = 0
  /\ nworkers \in {1, 2}
  /\ pc = [w \in Workers |-> "idle"]
  /\ wk = [w \in Workers |-> NoCall]
  /\ use_postgres \in BOOLEAN
  /\ LimiterStart
  /\ ApartStart

Others ==
  UNCHANGED <<users, txns, projects, versions, builds, chat, files, nextId, ops,
              grants, nworkers, apart>>

\* Lines 37-45: now, window_start and the SELECT of the record into the
\* session of the process.
SelectRecord(w, key) ==
  /\ use_postgres
  /\ Rank(w) <= nworkers
  /\ pc[w] = "idle"
  /\ TotalGranted < MaxChecks
  /\ LET found == RecordsOf(rate_limits, key, PostgresWindowStart(clock))
     IN wk' = [wk EXCEPT ![w] =
                 [key |-> key, now |-> clock, found |-> found # {},
                  request_count |-> PostgresCount(rate_limits, key, clock)]]
  /\ pc' = [pc EXCEPT ![w] = "rl_selected"]
  /\ UNCHANGED limiter
  /\ Others

\* Lines 47-71 on the record the session holds: the answer False, or the
\* UPDATE that sets request_count to the value computed from the record
\* read, or the INSERT of a record with request_count = 1; then the commit.
CommitRecord(w) ==
  /\ pc[w] = "rl_selected"
  /\ LET key == wk[w].key
         window_start == PostgresWindowStart(wk[w].now)
         stored == RecordsOf(rate_limits, key, window_start)
         old == {r \in rate_limits :
                   /\ r.user_id = key[1]
                   /\ r.endpoint = key[2]
                   /\ r.window_start < window_start - window_seconds * 2}
         allowed == ~ (wk[w].found /\ wk[w].request_count >= max_requests)
         rows == IF ~ allowed THEN rate_limits
                 ELSE IF wk[w].found
                 THEN (rate_limits \ stored) \cup
                        {[r EXCEPT !.request_count = wk[w].request_count + 1] :
                           r \in stored}
                 ELSE (rate_limits \ old) \cup
                        {[user_id |-> key[1], endpoint |-> key[2],
                          window_start |-> window_start, request_count |-> 1]}
     IN /\ rate_limits' = rows
        /\ granted' = Granted(granted, key, wk[w].now, allowed)
        /\ verdict' = [key |-> key, allowed |-> allowed,
                       before |-> wk[w].request_count,
                       after |-> PostgresCount(rows, key, wk[w].now)]
  /\ pc' = [pc EXCEPT ![w] = "idle"]
  /\ wk' = [wk EXCEPT ![w] = NoCall]
  /\ UNCHANGED <<use_postgres, clock, rate_limit_store>>
  /\ Others

\* Lines 91-109 in the one process that holds the store.
CallMemory(key) ==
  /\ nworkers = 1
  /\ CheckMemory(key)

\* One second passes.
TickRace ==
  /\ clock < MaxSecond
  /\ clock' = clock + 1
  /\ UNCHANGED <<use_postgres, rate_limits, rate_limit_store, granted, verdict>>
  /\ UNCHANGED <<pc, wk>>
  /\ Others

NextRace ==
  \/ \E w \in Workers, key \in Keys : SelectRecord(w, key)
  \/ \E w \in Workers : CommitRecord(w)
  \/ \E key \in Keys : CallMemory(key)
  \/ TickRace

SpecRace == InitRace /\ [][NextRace]_vars

\* ------------------------------------- routes/projects.py : iterate_project
\* The prompt route with its rate limiting (lines 181-201), served by one
\* worker process to the owner of a project that is ready, with room for one
\* request more than the limit allows.
InitPrompt ==
  /\ users = <<>> @@ ("alice" :> [credits |->
       NewBalance(FREE_TIER_STARTING_CREDITS, CREDIT_COSTS.create_project)])
  /\ txns = <<ChargeTxn("alice", CREDIT_COSTS.create_project, NoProject)>>
  /\ projects = InsertProjects(<<>>, <<SeedProject>>)
  /\ versions = {SeedVersion}
  /\ builds = <<SeedBuild>>
  /\ chat = <<>>
  /\ files = (1 :> TemplateFiles) @@ <<>>
  /\ nextId = 4
  /\ ops = MaxOps - (max_requests + 1)
  /\ grants = 0
  /\ nworkers = 1
  /\ use_postgres \in BOOLEAN
  /\ LimiterStart
  /\ ApartStart
  /\ pc = [w \in Workers |-> "idle"]
  /\ wk = [w \in Workers |-> IdleWk]

\* The prompts sent: each is accepted by the orchestrator and costs a small
\* edit.
PromptMessages == {MsgChangeColor}

\* The times of the requests: the first window and the start of the second.
PromptTimes == {t \in Times : t <= window_seconds + MaxSecond}

\* check_rate_limit (rate_limiter.py 112-127) for the key at the time of
\* the clock: the answer and the limiter's state afterwards.
check_rate_limit(key) ==
  LET rp == check_rate_limit_postgres(rate_limits, key, clock)
      rm == check_rate_limit_memory(rate_limit_store, key, clock)
  IN IF use_postgres
     THEN [allowed |-> rp.allowed, rows |-> rp.rows, store |-> rate_limit_store,
           before |-> PostgresCount(rate_limits, key, clock),
           after |-> PostgresCount(rp.rows, key, clock)]
     ELSE [allowed |-> rm.allowed, rows |-> rate_limits, store |-> rm.store,
           before |-> MemoryCount(rate_limit_store, key, clock),
           after |-> MemoryCount(rm.store, key, clock)]

\* Lines 181-189: a denied request is answered 429 RATE_LIMIT_EXCEEDED
\* before the orchestrator is constructed.
PromptCheck(w) ==
  /\ pc[w] = "idle"
  /\ Dispatch(w)
  /\ ops < MaxOps
  /\ \E u \in DOMAIN users, p \in DOMAIN projects, message \in PromptMessages :
       LET key == <<u, "prompt">>
           r == check_rate_limit(key)
           w0 == [IdleWk EXCEPT !.op = "iterate", !.user = u, !.project = p,
                                !.message = message]
       IN /\ rate_limits' = r.rows
          /\ rate_limit_store' = r.store
          /\ granted' = Granted(granted, key, clock, r.allowed)
          /\ verdict' = [key |-> key, allowed |-> r.allowed,
                         before |-> r.before, after |-> r.after]
          /\ IF r.allowed
             THEN /\ wk' = [wk EXCEPT ![w] = w0]
                  /\ pc' = [pc EXCEPT ![w] = "rl_passed"]
             ELSE /\ wk' = [wk EXCEPT ![w] =
                        [w0 EXCEPT !.error = "RATE_LIMIT_EXCEEDED"]]
                  /\ pc' = [pc EXCEPT ![w] = "error"]
  /\ ops' = ops + 1
  /\ UNCHANGED <<users, txns, projects, versions, chat, builds, files, nextId,
                 grants, nworkers, use_postgres, clock, apart>>

\* Lines 194-201: the orchestrator takes the request over.
PromptStart(w) ==
  /\ pc[w] = "rl_passed"
  /\ iterate_project(w, wk[w].user, wk[w].project, wk[w].message)
  /\ UNCHANGED <<ops, files, builds, grants, nworkers>>

PromptStep(w) ==
  \/ PromptCheck(w)
  \/ PromptStart(w)
  \/ ChargeRead(w)
  \/ ChargeCommit(w)
  \/ ItVersion(w)
  \/ BuildInsert(w)
  \/ BuildResponse(w)
  \/ Repair(w)
  \/ RepairResponse(w)
  \/ Finish(w)
  \/ Return(w)

\* Time passes only between two requests.
PromptTick ==
  /\ \A w \in Workers : pc[w] = "idle"
  /\ Tick
  /\ clock' \in PromptTimes

NextPrompt ==
  \/ \E w \in Workers : PromptStep(w)
  \/ PromptTick

SpecPrompt == InitPrompt /\ [][NextPrompt]_vars

\* ---------------------------- services/project_orchestrator.py : iterate
\* The prompt route for the owner of a project that is ready, with prompts
\* of both forms of the edit grammar and prompts the grammar rejects.
EditMessages ==
  Messages \cup {MsgUpdateWelcome, MsgAddSection, MsgRefactor, MsgUpdateComponent,
                 MsgRemoveMajor}

InitEdit ==
  /\ users = <<>> @@ ("alice" :> [credits |->
       NewBalance(FREE_TIER_STARTING_CREDITS, CREDIT_COSTS.create_project)])
  /\ txns = <<ChargeTxn("alice", CREDIT_COSTS.create_project, NoProject)>>
  /\ projects = InsertProjects(<<>>, <<SeedProject>>)
  /\ versions = {SeedVersion}
  /\ builds = <<SeedBuild>>
  /\ chat = <<>>
  /\ files = (1 :> TemplateFiles) @@ <<>>
  /\ nextId = 4
  /\ ops = MaxOps - 2
  /\ grants = 0
  /\ nworkers = 1
  /\ use_postgres = FALSE
  /\ LimiterStart
  /\ ApartStart
  /\ pc = [w \in Workers |-> "idle"]
  /\ wk = [w \in Workers |-> IdleWk]

StartEdit(w) ==
  /\ pc[w] = "idle"
  /\ Dispatch(w)
  /\ ops < MaxOps
  /\ \E u \in DOMAIN users, p \in DOMAIN projects, message \in EditMessages :
       iterate_project(w, u, p, message)
  /\ ops' = ops + 1
  /\ UNCHANGED <<files, builds, grants, nworkers>>

EditStep(w) ==
  \/ StartEdit(w)
  \/ ItApply(w)
  \/ ChargeRead(w)
  \/ ChargeCommit(w)
  \/ ItVersion(w)
  \/ BuildInsert(w)
  \/ BuildResponse(w)
  \/ Repair(w)
  \/ RepairResponse(w)
  \/ Finish(w)
  \/ Return(w)

NextEdit == \E w \in Workers : EditStep(w)

SpecEdit == InitEdit /\ [][NextEdit]_vars

\* ------------------------------------- services/log_sanitizer.py on its own
MaxLen == 4
MaxAround == 1

\* The tokens log texts are made of here.
SanTokens == Words \cup {":", "=", " ", "\"", Redacted, LineOk}

RECURSIVE TextsUpTo(_)
TextsUpTo(n) ==
  IF n = 0 THEN {<<>>}
  ELSE LET shorter == TextsUpTo(n - 1)
       IN shorter \cup {Append(t, tok) : t \in shorter, tok \in SanTokens}

\* 'Authorization: Bearer <token>' with a token of 20 base64url characters.
BearerHeader == <<"Authorization", ":", " ", "Bearer", " ", Jwt>>

HeaderLogs ==
  {before \o BearerHeader \o after :
     before \in TextsUpTo(MaxAround), after \in TextsUpTo(MaxAround)}

InitSanitize ==
  /\ users = <<>>
  /\ txns = <<>>
  /\ projects = <<>>
  /\ versions = {}
  /\ builds = <<>>
  /\ chat = <<>>
  /\ files = <<>>
  /\ nextId = 1
  /\ ops = 0
  /\ grants = 0
  /\ nworkers = 1
  /\ pc = [w \in Workers |-> "idle"]
  /\ wk = [w \in Workers |-> IdleWk]
  /\ use_postgres = FALSE
  /\ LimiterStart
  /\ RunnerIdle
  /\ preview = NoPreview
  /\ sizing = NoSizing
  /\ \E logs \in TextsUpTo(MaxLen) \cup HeaderLogs :
       san = [NoSan EXCEPT !.logs = logs, !.stage = "raw"]

\* sanitize_logs(logs)
Sanitize ==
  /\ san.stage = "raw"
  /\ san' = [san EXCEPT !.sanitized = sanitize_logs(san.logs),
                        !.stage = "sanitized"]
  /\ NoRequest
  /\ UNCHANGED <<limiter, runner, preview, sizing>>

\* sanitize_logs on the text that sanitize_logs returned.
SanitizeAgain ==
  /\ san.stage = "sanitized"
  /\ san' = [san EXCEPT !.again = sanitize_logs(san.sanitized),
                        !.stage = "again"]
  /\ NoRequest
  /\ UNCHANGED <<limiter, runner, preview, sizing>>

NextSanitize == Sanitize \/ SanitizeAgain

SpecSanitize == InitSanitize /\ [][NextSanitize]_vars

\* ---------------------------------------------- apps/runner/main.py
\* A container of the daemon is [id, name, status, exit_code]; the id of a
\* container is the request that created it.
RunnerProjects == {1, 2}

\* Line 100: f"uai-build-{request.project_id}"
container_name(project_id) == <<"uai-build", project_id>>

InFlight(j) == jobs[j].pc \notin {"none", "returned"}

\* _cleanup_container: the container of that name is killed when it runs,
\* then removed; docker.errors.NotFound is passed over.
cleanup_container(containers, name) == {c \in containers : c.name # name}

\* The requests in flight, other than j, that own a container of
\* containers that is not in remaining.
Harmed(j, containers, remaining) ==
  {k \in Jobs \ {j} : InFlight(k) /\ \E c \in containers \ remaining : c.id = k}

NoteHarmed(j, js, containers, remaining) ==
  [k \in Jobs |-> IF k \in Harmed(j, containers, remaining)
                   THEN [js[k] EXCEPT !.harmed = TRUE] ELSE js[k]]

OtherParts == NoRequest /\ UNCHANGED <<limiter, san, preview, runner_procs, sizing>>

InitRunner ==
  /\ users = <<>>
  /\ txns = <<>>
  /\ projects = <<>>
  /\ versions = {}
  /\ builds = <<>>
  /\ chat = <<>>
  /\ files = <<>>
  /\ nextId = 1
  /\ ops = 0
  /\ grants = 0
  /\ nworkers = 1
  /\ pc = [w \in Workers |-> "idle"]
  /\ wk = [w \in Workers |-> IdleWk]
  /\ use_postgres = FALSE
  /\ LimiterStart
  /\ san = NoSan
  /\ preview = NoPreview
  /\ sizing = NoSizing
  /\ docker = {}
  /\ jobs = [j \in Jobs |-> NoJob]
  /\ runner_procs \in {1, 2}

\* Lines 87-100: a process of the runner takes the request; 404 when the
\* project path does not exist.
RunBuildStart(j) ==
  /\ jobs[j].pc = "none"
  /\ Cardinality({k \in Jobs : InFlight(k)}) < runner_procs
  /\ \E project_id \in RunnerProjects, exists \in BOOLEAN :
       jobs' = [jobs EXCEPT ![j] =
                  IF exists
                  THEN [NoJob EXCEPT !.pc = "cleanup", !.project_id = project_id,
                                     !.container_name = container_name(project_id)]
                  ELSE [NoJob EXCEPT !.pc = "returned", !.project_id = project_id,
                                     !.response = "http_404"]]
  /\ UNCHANGED docker
  /\ OtherParts

\* Line 104: _cleanup_container(container_name) before the run.
CleanupBefore(j) ==
  /\ jobs[j].pc = "cleanup"
  /\ docker' = cleanup_container(docker, jobs[j].container_name)
  /\ jobs' = [NoteHarmed(j, jobs, docker, docker') EXCEPT ![j].pc = "run"]
  /\ OtherParts

\* Lines 107-121: containers.run(..., name=container_name, detach=True); the
\* daemon refuses a name that is in use (APIError, lines 161-170).
RunContainer(j) ==
  /\ jobs[j].pc = "run"
  /\ IF \E c \in docker : c.name = jobs[j].container_name
     THEN /\ jobs' = [jobs EXCEPT ![j].pc = "finally",
                                  ![j].response = "docker_api_error"]
          /\ UNCHANGED docker
     ELSE /\ docker' = docker \cup {[id |-> j, name |-> jobs[j].container_name,
                                      status |-> "running", exit_code |-> 0]}
          /\ jobs' = [jobs EXCEPT ![j].pc = "wait"]
  /\ OtherParts

\* The command of a container ends.
ContainerExit(j) ==
  /\ \E c \in docker, exit_code \in {0, 1} :
       /\ c.id = j
       /\ c.status = "running"
       /\ docker' = (docker \ {c})
                      \cup {[c EXCEPT !.status = "exited", !.exit_code = exit_code]}
  /\ UNCHANGED jobs
  /\ OtherParts

\* Lines 124-138: container.wait(timeout); on an exception the container is
\* killed and removed and the timeout answer returned.  A container that
\* is gone makes wait and then kill raise NotFound, an APIError.
WaitContainer(j) ==
  /\ jobs[j].pc = "wait"
  /\ LET own == {c \in docker : c.id = j}
     IN IF own = {}
        THEN /\ jobs' = [jobs EXCEPT ![j].pc = "finally",
                                     ![j].response = "docker_api_error"]
             /\ UNCHANGED docker
        ELSE IF \E c \in own : c.status = "exited"
        THEN /\ jobs' = [jobs EXCEPT ![j].pc = "collect"]
             /\ UNCHANGED docker
        ELSE /\ docker' = docker \ own
             /\ jobs' = [jobs EXCEPT ![j].pc = "finally",
                                     ![j].response = "timeout"]
  /\ OtherParts

\* Lines 141-159: the logs are read, the container removed and the answer
\* built from the exit code.
CollectLogs(j) ==
  /\ jobs[j].pc = "collect"
  /\ LET own == {c \in docker : c.id = j}
     IN IF own = {}
        THEN /\ jobs' = [jobs EXCEPT ![j].pc = "finally",
                                     ![j].response = "docker_api_error"]
             /\ UNCHANGED docker
        ELSE /\ docker' = docker \ own
             /\ jobs' = [jobs EXCEPT ![j].pc = "finally",
                    ![j].response =
                       IF \E c \in own : c.exit_code = 0 THEN "success"
                       ELSE "build_failed"]
  /\ OtherParts

\* Lines 181-182: finally _cleanup_container(container_name).
CleanupFinally(j) ==
  /\ jobs[j].pc = "finally"
  /\ docker' = cleanup_container(docker, jobs[j].container_name)
  /\ jobs' = [NoteHarmed(j, jobs, docker, docker') EXCEPT ![j].pc = "returned"]
  /\ OtherParts

NextRunner ==
  \E j \in Jobs :
    \/ RunBuildStart(j)
    \/ CleanupBefore(j)
    \/ RunContainer(j)
    \/ ContainerExit(j)
    \/ WaitContainer(j)
    \/ CollectLogs(j)
    \/ CleanupFinally(j)

SpecRunner == InitRunner /\ [][NextRunner]_vars

\* ---------------------------------------------- routes/preview.py
\* Ids are numbers here; 0 stands for a text that is not of the form of a
\* uuid (lines 42 and 48).
WellFormedId(id) == id # 0

PreviewProjectIds == {0, 1, 2}
PreviewBuildIds == {0, 3, 4}

\* The bearer tokens of a request: none, the token signin gave a user (its
\* payload is {"sub": user.id}), or a text that is no token.
BadToken == "garbage"
PreviewTokens == {NULL, BadToken} \cup Users

\* decode_access_token(credentials.credentials)
decode_access_token(token) ==
  IF token \in Users THEN [sub |-> token] ELSE NULL

\* Lines 74-84: what the body of the try raises.
OwnershipRaises(project, credentials) ==
  IF credentials = NULL THEN NULL
  ELSE LET payload == decode_access_token(credentials)
       IN IF payload # NULL /\ project.user_id # payload.sub
          THEN "HTTPException_403" ELSE NULL

\* Lines 85-86: except Exception: pass.  HTTPException is an Exception.
ExceptExceptionPass(raised) == NULL

\* (status code, page) of serve_preview.
serve_preview(project_id, build_id, credentials) ==
  IF ~ WellFormedId(project_id)
    THEN [status_code |-> 400, page |-> "INVALID_PROJECT_ID"]
  ELSE IF ~ WellFormedId(build_id)
    THEN [status_code |-> 400, page |-> "INVALID_BUILD_ID"]
  ELSE IF ~ \E i \in DOMAIN builds :
              builds[i].id = build_id /\ builds[i].project_id = project_id
    THEN [status_code |-> 404, page |-> "NOT_FOUND"]
  ELSE IF project_id \notin DOMAIN projects
    THEN [status_code |-> 404, page |-> "NOT_FOUND"]
  ELSE IF ExceptExceptionPass(OwnershipRaises(projects[project_id], credentials)) # NULL
    THEN [status_code |-> 403, page |-> "FORBIDDEN"]
  ELSE IF BuildRow(builds, build_id).status # "success"
    THEN [status_code |-> 200, page |-> "build_failed_page"]
  ELSE [status_code |-> 200, page |-> "preview_page"]

\* A server with two users, one project and its build.
InitPreview ==
  /\ \E owner \in Users, ok \in BOOLEAN :
       /\ projects = InsertProjects(<<>>, <<[SeedProject EXCEPT !.user_id = owner]>>)
       /\ builds = << IF ok THEN SeedBuild
                      ELSE Failed(WithResults(NewBuild(3, 1, 2, 1),
                                              validate_build("missing_lodash"))) >>
  /\ users = [u \in Users |-> [credits |-> FREE_TIER_STARTING_CREDITS]]
  /\ txns = <<>>
  /\ versions = {SeedVersion}
  /\ chat = <<>>
  /\ files = (1 :> TemplateFiles) @@ <<>>
  /\ nextId = 4
  /\ ops = 3
  /\ grants = 0
  /\ nworkers = 1
  /\ use_postgres = FALSE
  /\ LimiterStart
  /\ san = NoSan
  /\ RunnerIdle
  /\ preview = NoPreview
  /\ sizing = NoSizing
  /\ pc = [w \in Workers |-> "idle"]
  /\ wk = [w \in Workers |-> IdleWk]

\* GET /preview/{project_id}/{build_id}
PreviewRequest ==
  /\ \E project_id \in PreviewProjectIds, build_id \in PreviewBuildIds,
        token \in PreviewTokens :
       LET r == serve_preview(project_id, build_id, token)
       IN preview' = [project_id |-> project_id, build_id |-> build_id,
                      token |-> token, status_code |-> r.status_code,
                      page |-> r.page]
  /\ NoRequest
  /\ UNCHANGED <<limiter, san, runner, sizing>>

NextPreview == PreviewRequest

SpecPreview == InitPreview /\ [][NextPreview]_vars

\* ===================================================================
\* The change size rules on their own: a message, a number of changed
\* files and a number of changed lines are handed to the rules
\* (project_orchestrator.py 264-283) and the cost of the class is looked up
\* (line 191).
\* ===================================================================
MaxFilesChanged == 4

SizeMessages == {MsgChangeTitle, MsgUnsupported, MsgAddSection, MsgRefactor,
                 MsgUpdateComponent, MsgRemoveMajor}

\* Line counts on both sides of max_lines of the small and the medium rule.
SizeLines == {0, 50, 51, 200, 201}

InitSize ==
  /\ users = <<>>
  /\ txns = <<>>
  /\ projects = <<>>
  /\ versions = {}
  /\ builds = <<>>
  /\ chat = <<>>
  /\ files = <<>>
  /\ nextId = 1
  /\ ops = 0
  /\ grants = 0
  /\ nworkers = 1
  /\ pc = [w \in Workers |-> "idle"]
  /\ wk = [w \in Workers |-> IdleWk]
  /\ use_postgres = FALSE
  /\ LimiterStart
  /\ san = NoSan
  /\ RunnerIdle
  /\ preview = NoPreview
  /\ \E message \in SizeMessages, n \in 0..MaxFilesChanged, l \in SizeLines :
       sizing = [NoSizing EXCEPT !.message = message, !.num_files_changed = n,
                                 !.total_lines = l]

\* Lines 264-283 and 191.
DetermineChangeSize ==
  /\ sizing.change_size = NULL
  /\ LET change_size == FirstRule(CHANGE_SIZE_RULES, sizing.message,
                                  sizing.num_files_changed, sizing.total_lines)
     IN sizing' = [sizing EXCEPT !.change_size = change_size,
                                 !.credit_cost = EditCost(change_size)]
  /\ NoRequest
  /\ UNCHANGED <<limiter, san, runner, preview>>

NextSize == DetermineChangeSize

SpecSize == InitSize /\ [][NextSize]_vars

\* ===================================================================
\* Properties
\* ===================================================================
\* No request is open: every write of every session has been committed or
\* rolled back.
NoneOpen == \A w \in Workers : pc[w] = "idle"

Last(s) == s[Len(s)]

\* ------------------------------------------------------------ credits
\* C1: credit conservation -- after any sequence of signup, charge and grant
\* operations, the stored balance of every user equals the sum of the
\* amounts of that user's credit_transactions rows.
C1_CreditConservation ==
  NoneOpen => \A u \in DOMAIN users : users[u].credits = SumAmounts(txns, u)

\* C2: charge_credits on a balance lower than the amount fails with
\* InsufficientCredits and leaves the balance and the transaction log
\* unchanged (the failed request writes nothing afterwards either); on a
\* balance greater than or equal to the amount it lowers the balance by
\* exactly the amount and appends exactly one "charge" row whose amount is
\* the negated amount.
C2_ChargeContract ==
  [][\A w \in Workers :
       LET u == wk[w].user
           amount == wk[w].amount
       IN /\ (pc[w] = "charge_read" /\ pc'[w] # "charge_read") =>
               /\ users' = users
               /\ txns' = txns
               /\ IF users[u].credits < amount
                  THEN /\ pc'[w] = "error"
                       /\ wk'[w].error = "INSUFFICIENT_CREDITS"
                       /\ wk'[w].pend = EmptyPend
                  ELSE pc'[w] = "charge_commit"
          /\ (pc[w] = "charge_commit" /\ pc'[w] # "charge_commit") =>
               /\ users[u].credits >= amount
               /\ users'[u].credits = users[u].credits - amount
               /\ Len(txns') = Len(txns) + 1
               /\ SubSeq(txns', 1, Len(txns)) = txns
               /\ Last(txns').user_id = u
               /\ Last(txns').transaction_type = "charge"
               /\ Last(txns').amount = 0 - amount
          /\ (pc[w] = "error" /\ wk[w].error = "INSUFFICIENT_CREDITS"
                /\ pc'[w] # "error") =>
               /\ users' = users
               /\ txns' = txns
    ]_vars

\* A charge has been refused for lack of credits after an earlier charge of
\* exactly the whole balance went through.
C2_Witness ==
  \E w \in Workers :
    /\ pc[w] = "error"
    /\ wk[w].error = "INSUFFICIENT_CREDITS"
    /\ users[wk[w].user].credits = 0
    /\ \E i \in DOMAIN txns : /\ txns[i].user_id = wk[w].user
                              /\ txns[i].transaction_type = "charge"

\* C3: when two charges of one user run concurrently the balance never
\* becomes negative and, once both are over, the balance is the starting
\* balance minus the charges that succeeded: no update is lost.
C3_NoLostUpdate ==
  \A u \in DOMAIN users :
    /\ users[u].credits >= 0
    /\ ( /\ NoneOpen
         /\ \A i \in DOMAIN txns : txns[i].transaction_type = "charge" )
       => users[u].credits = FREE_TIER_STARTING_CREDITS + SumAmounts(txns, u)

\* ------------------------------------------------------------ versions
VersionsOf(p) == {v \in versions : v.project_id = p}

VersionNumbers(p) == {v.version_number : v \in VersionsOf(p)}

\* C4: version monotonicity -- after any sequence of create, iterate and
\* rollback operations on a project, the set of its version numbers is
\* exactly {1, ..., k}, k being the number of its versions.
C4_VersionMonotonicity ==
  \A p \in DOMAIN projects :
    VersionNumbers(p) = 1 .. Cardinality(VersionsOf(p))

\* A project has the version of its creation, one of an iteration and one
\* of a rollback.
C4_Witness ==
  \E p \in DOMAIN projects :
    /\ Cardinality(VersionsOf(p)) >= 3
    /\ \E v \in VersionsOf(p) : v.created_by # "system" /\ v.code_diff.null
    /\ \E v \in VersionsOf(p) : v.created_by # "system" /\ ~ v.code_diff.null

\* C5: lock serialization -- the versions created by iterations (or an
\* iteration and a rollback) that run concurrently on one project get
\* strictly sequential version numbers: no two version rows of the project
\* carry the same number, and no number below the highest one is missing.
C5_LockSerialization ==
  \A p \in DOMAIN projects :
    /\ \A v1, v2 \in VersionsOf(p) :
         v1.id # v2.id => v1.version_number # v2.version_number
    /\ \A n \in 1 .. Cardinality(VersionsOf(p)) :
         \E v \in VersionsOf(p) : v.version_number = n

\* The worker is between the file snapshot of its operation and the final
\* commit: applying edits, charging, or in the build / repair loop.
InProject(w) ==
  /\ wk[w].project # NoProject
  /\ \/ pc[w] \in {"bl_insert", "bl_build_wait", "bl_repair", "bl_repair_wait",
                   "finish"}
     \/ /\ wk[w].op = "iterate"
        /\ pc[w] \in {"it_apply", "charge_read", "charge_commit", "it_version"}

\* C6: per-project mutual exclusion -- at no time are two operations on the
\* same project both between file snapshot and final commit.
C6_MutualExclusion ==
  \A w1, w2 \in Workers :
    (w1 # w2 /\ InProject(w1) /\ InProject(w2))
      => wk[w1].project # wk[w2].project

\* ------------------------------------------------------------ build loop
\* C7: retry bound -- every Build row ever persisted has
\* 1 <= attempt_number <= 3, whatever the runner answers.
C7_RetryBound ==
  \A i \in DOMAIN builds :
    /\ 1 <= builds[i].attempt_number
    /\ builds[i].attempt_number <= 3

\* A build loop has gone round: its repair build failed and it came back to
\* the top of the loop for its second attempt, the row of the first attempt
\* being in the table.
C7_Witness ==
  \E w \in Workers :
    /\ wk[w].attempt = 2
    /\ pc[w] = "error"
    /\ \E i \in DOMAIN builds : builds[i].id = wk[w].build_id

\* C8: within one run of the build loop the runner is invoked at most 3
\* times, calls to /build and calls to /repair counted together.
C8_RunnerCalls == \A w \in Workers : wk[w].calls <= 3

\* A build loop has called /build and then /repair and has got both answers.
C8_Witness ==
  \E w \in Workers : wk[w].calls = 2 /\ Len(wk[w].outcomes) = 2

\* The last three components of a preview URL.
UrlTail(url) ==
  IF Len(url) < 3 THEN url ELSE SubSeq(url, Len(url) - 2, Len(url))

\* The request of the worker is over: its answer is ready to be returned.
Over(w) == pc[w] \in {"done", "error"}

\* C9: when the runner reports a successful build (HTTP 200, success = true,
\* error = null) the build loop ends with the Build row in status success,
\* completed_at set and preview_url of the form
\* preview/<project_id>/<build_id>, and the project ends in status ready
\* with that same preview_url.
C9_SuccessRecorded ==
  \A w \in Workers :
    ( /\ Over(w)
      /\ wk[w].outcomes # <<>>
      /\ Last(wk[w].outcomes) = "ok" )
    => LET b == BuildRow(builds, wk[w].build_id)
           p == wk[w].project
       IN /\ b.status = "success"
          /\ b.completed_at # NULL
          /\ UrlTail(b.preview_url) = <<"preview", p, b.id>>
          /\ projects[p].status = "ready"
          /\ projects[p].preview_url = b.preview_url

\* C10: repair loop success -- if the first build of an iteration fails with
\* a missing-module error, the package.json patch is applied and the repair
\* build that follows succeeds, then exactly one Build row exists for the
\* version, it has attempt_number = 2, status success and preview_url set,
\* and the user has been charged exactly once for the iteration.
C10_RepairSuccess ==
  \A w \in Workers :
    ( /\ Over(w)
      /\ wk[w].op = "iterate"
      /\ Len(wk[w].outcomes) = 2
      /\ wk[w].outcomes[1] \in MissingModuleOutcomes
      /\ wk[w].patched = <<PackageJson>>
      /\ repair_build(wk[w].outcomes[2]).success )
    => LET rows == {i \in DOMAIN builds : builds[i].version_id = wk[w].version}
       IN /\ Cardinality(rows) = 1
          /\ \A i \in rows : /\ builds[i].attempt_number = 2
                             /\ builds[i].status = "success"
                             /\ builds[i].preview_url # NoUrl
          /\ wk[w].charged = 1

\* The worker's request ran the build loop: the runner was called.
RanLoop(w) == wk[w].calls >= 1

\* C11: every run of the build loop ends whatever the runner answers
\* (success, failure, timeout), and once the request that ran it is over the
\* Build row is in status success or failed, never building or repairing,
\* and the project of a create, iterate or rollback request is ready or
\* failed respectively, never building.
C11_LoopOutcome ==
  \A w \in Workers :
    (Over(w) /\ RanLoop(w))
    => LET b == BuildRow(builds, wk[w].build_id)
           p == wk[w].project
       IN /\ b.status \in {"success", "failed"}
          /\ wk[w].op # "rebuild" =>
               /\ b.status = "success" => projects[p].status = "ready"
               /\ b.status = "failed" => projects[p].status = "failed"

\* C12: atomic apply -- when validate_and_apply_changes fails (a path fails
\* validation part-way through the changes, or the linter exits non-zero)
\* the project directory holds exactly the files and contents it held
\* before the call, also when a change targeted a path that did not exist.
C12_AtomicApply ==
  \A w \in Workers :
    (pc[w] = "apply_done" /\ wk[w].error # NULL)
    => files[wk[w].project] = wk[w].old_files

\* ----------------------------------------------------------- iterations
\* C13: when the charge step of an iteration fails with InsufficientCredits
\* after the edits were applied, the file writes are reversed (the project
\* directory equals the snapshot taken before the iteration), no Version is
\* created and nothing is charged.
C13_ChargeFailureReverts ==
  \A w \in Workers :
    ( /\ Over(w)
      /\ wk[w].op = "iterate"
      /\ wk[w].error = "INSUFFICIENT_CREDITS"
      /\ wk[w].changes # <<>> )
    => /\ files[wk[w].project] = wk[w].old_files
       /\ wk[w].version = 0
       /\ wk[w].charged = 0

\* C14: an iteration that fails before the charge step (unsupported prompt,
\* component or pattern not found, local verification failed) leaves the
\* balances and the transaction log unchanged, creates no Version row and
\* leaves the stored spec and status of every project as they were: no step
\* of the request, from its arrival to its failure, writes any of them.
C14_FailureBeforeCharge ==
  [][ \A w \in Workers :
        LET arrives == pc[w] = "idle" /\ pc'[w] = "it_apply"
            fails == /\ pc'[w] = "error"
                     /\ wk'[w].op = "iterate"
                     /\ wk'[w].error = "BAD_REQUEST"
        IN /\ (arrives \/ fails) => UNCHANGED <<users, txns, versions, projects>>
           /\ fails => /\ pc[w] \in {"idle", "it_apply"}
                       /\ wk'[w].version = 0
                       /\ wk'[w].charged = 0
                       /\ wk'[w].pend = EmptyPend ]_vars

\* An iteration failed in local verification (the linter exited non-zero).
C14_Witness ==
  \E w \in Workers :
    /\ pc[w] = "error"
    /\ wk[w].op = "iterate"
    /\ wk[w].error = "BAD_REQUEST"
    /\ wk[w].changes # <<>>

\* C15: a prompt 'change <component> <field> to <value>' for which no field
\* substitution applies (the field is not 'title', or no title pattern
\* matches) fails with an error and is never charged: every iteration that
\* charges credits and creates a Version has changed at least one file.
C15_ChargedIterationChangesFiles ==
  \A w \in Workers :
    (wk[w].op = "iterate" /\ wk[w].charged >= 1 /\ wk[w].version # 0)
    => /\ wk[w].changes # <<>>
       /\ wk[w].diff.modified \cup wk[w].diff.added \cup wk[w].diff.deleted # {}

\* Every answer the runner gave to the worker's build loop was a failure.
AllFailed(w) ==
  /\ wk[w].outcomes # <<>>
  /\ \A i \in DOMAIN wk[w].outcomes : ~ validate_build(wk[w].outcomes[i]).success

BuildSucceeded(w) ==
  /\ wk[w].outcomes # <<>>
  /\ validate_build(Last(wk[w].outcomes)).success

\* C17: create_project for a user whose balance is at least 5 charges
\* exactly 5 credits exactly once and creates Version number 1; the stored
\* project status goes draft, then building, then ready when the build
\* succeeds.
C17_CreateLifecycle ==
  [][ /\ \A p \in DOMAIN projects' \ DOMAIN projects :
           projects'[p].status = "draft"
      /\ \A p \in DOMAIN projects :
           projects'[p].status # projects[p].status
           => <<projects[p].status, projects'[p].status>> \in
                {<<"draft", "building">>, <<"building", "ready">>,
                 <<"building", "failed">>, <<"ready", "building">>,
                 <<"failed", "building">>}
      /\ \A w \in Workers :
           (wk'[w].op = "create" /\ ~ Over(w) /\ Over(w)' /\ BuildSucceeded(w)')
           => /\ wk'[w].charged = 1
              /\ wk'[w].amount = 5
              /\ \E v \in versions' : /\ v.id = wk'[w].version
                                      /\ v.version_number = 1
              /\ projects'[wk'[w].project].status = "ready" ]_vars

\* C18: if create_project fails for any reason after it started
\* (insufficient credits, template missing, unexpected error) no partial
\* state is visible: the balance and the transaction log are unchanged and
\* no Project, Version or Build row of that attempt exists.
C18_CreateAllOrNothing ==
  \A w \in Workers :
    (pc[w] = "error" /\ wk[w].op = "create")
    => /\ wk[w].charged = 0
       /\ wk[w].project \notin DOMAIN projects
       /\ ~ \E v \in versions : v.id = wk[w].version
       /\ ~ \E i \in DOMAIN builds : builds[i].id = wk[w].build_id

\* ----------------------------------------------------------- ownership
\* C19: a prompt request by a user who does not own the project fails with
\* the same NotFound outcome as a request for a project id that does not
\* exist (the existence of the project is hidden) and changes no project,
\* version, build, file or credit state.
C19_NonOwnerHidden ==
  [][ \A w \in Workers :
        ( /\ pc[w] = "idle"
          /\ pc'[w] # "idle"
          /\ wk'[w].op = "iterate"
          /\ wk'[w].project \in DOMAIN projects
          /\ projects[wk'[w].project].user_id # wk'[w].user )
        => /\ pc'[w] = "error"
           /\ wk'[w].error = "NOT_FOUND"
           /\ UNCHANGED <<projects, versions, builds, files, users, txns>> ]_vars

\* ---------------------------------------------------------- rate limiter
\* C20: rate-limit bound -- for either backend and any sequence of calls,
\* the counter of a (principal, endpoint, fixed window) never exceeds max,
\* the answer is True for at most max calls in the same fixed window
\* floor(now / window), and a denied call does not increment the counter.
C20_RateLimitBound ==
  /\ \A r \in rate_limits : r.request_count <= max_requests
  /\ \A k \in Keys : \A ts \in DOMAIN rate_limit_store[k] :
       rate_limit_store[k][ts] <= max_requests
  /\ \A k \in Keys, win \in 0..MaxMinute :
       GrantedAt(k, {t \in Times : FixedWindow(t) = win}) <= max_requests
  /\ ~ verdict.allowed => verdict.after = verdict.before

\* The txn rows that charge an edit of a project.
EditCharges == {i \in DOMAIN txns : txns[i].project_id # NoProject}

\* C21: a prompt request denied by the rate limiter makes no charge and
\* creates no version, and of the prompts one principal with enough credits
\* sends within window_seconds at most max_requests are let through: the
\* next one is rejected with RATE_LIMIT_EXCEEDED, so the balance has been
\* decremented at most max_requests times in that time.
C21_DeniedPromptFree ==
  /\ \A w \in Workers :
       (pc[w] = "error" /\ wk[w].error = "RATE_LIMIT_EXCEEDED")
       => wk[w].charged = 0 /\ wk[w].version = 0
  /\ Cardinality(EditCharges) <= TotalGranted
  /\ \A k \in Keys, t \in Times :
       GrantedAt(k, {t2 \in Times : t - window_seconds < t2 /\ t2 <= t})
         <= max_requests

\* Every text the runner can answer with, to /build or to /repair.
RunnerTexts ==
  UNION {{res.logs, res.lint_output, res.build_output, res.error} :
           res \in {validate_build(o) : o \in RunnerOutcomes}
                    \cup {repair_build(o) : o \in RunnerOutcomes}} \ {NoText}

\* The texts of a Build row; the notes the loop itself appends to
\* build_logs after a repair patch are not runner output.
RowTexts(b) ==
  {LogText(b.build_logs), b.lint_output, b.build_output, b.error_message}

\* C22: every value of build_logs, lint_output, build_output and
\* error_message stored in a Build row by the build loop is the result of
\* sanitize_logs on a text of the runner (or was never set); the runner's
\* raw text is never stored.
C22_SanitizedBeforeCommit ==
  \A i \in DOMAIN builds : \A v \in RowTexts(builds[i]) :
    \/ v = NoText
    \/ (builds[i].build_logs = NoLogs /\ v = <<>>)
    \/ \E raw \in RunnerTexts : v = sanitize_logs(raw)

\* A row that holds the redacted form of a log that carried a secret.
C22_Witness ==
  \E i \in DOMAIN builds :
    /\ builds[i].build_output = sanitize_logs(LogMissingAxios)
    /\ builds[i].build_output # LogMissingAxios
    /\ \E k \in DOMAIN builds[i].build_output :
         builds[i].build_output[k] = Redacted

\* ------------------------------------------------------------- sanitizer
\* The text has the tokens of part in a row.
Contains(text, part) ==
  \E i \in 0..(Len(text) - Len(part)) :
    \A k \in DOMAIN part : text[i + k] = part[k]

\* C23: sanitize_logs is idempotent -- sanitizing a text that sanitize_logs
\* returned gives that text back, for every log text.
C23_SanitizeIdempotent ==
  san.stage = "again" => san.again = san.sanitized

\* A text with a secret went through twice: the first call redacted it.
C23_Witness ==
  /\ san.stage = "again"
  /\ san.sanitized # san.logs
  /\ Contains(san.logs, <<"password", "=", "hunter2">>)
  /\ Contains(san.sanitized, <<"password", "=", Redacted>>)

\* C24: for every log text that contains 'Authorization: Bearer <token>'
\* with a token of at least 20 base64url characters, the sanitized text
\* contains 'Bearer [REDACTED]' and does not contain the token.
C24_BearerRedacted ==
  (san.stage # "raw" /\ Contains(san.logs, BearerHeader))
    => /\ Contains(san.sanitized, <<"Bearer", " ", Redacted>>)
       /\ ~ Contains(san.sanitized, <<Jwt>>)

\* --------------------------------------------------- versions and builds
\* C25: no operation (create, iterate, rebuild, rollback) changes or removes
\* a Version row that exists; a rollback to T that adds a row adds exactly
\* one, with the next version_number of the project and T's spec_snapshot.
C25_VersionImmutability ==
  [][ /\ versions \subseteq versions'
      /\ \A w \in Workers :
           (wk[w].op = "rollback" /\ pc'[w] # pc[w] /\ versions' # versions)
           => \E n \in versions' \ versions, T \in versions :
                /\ versions' = versions \cup {n}
                /\ T.id = wk[w].target
                /\ n.project_id = T.project_id
                /\ n.spec_snapshot = T.spec_snapshot
                /\ n.version_number = NextVersionNumber(versions, T.project_id)
                /\ \A v \in versions : v.id # n.id ]_vars

\* A rollback has added its version: three rows of one project, the newest
\* with the spec of an older one that is not the one before it.
C25_Witness ==
  \E w \in Workers, n \in versions, T \in versions, mid \in versions :
    /\ wk[w].op = "rollback"
    /\ n.id = wk[w].version
    /\ T.id = wk[w].target
    /\ n.project_id = T.project_id /\ mid.project_id = T.project_id
    /\ T.version_number < mid.version_number
    /\ mid.version_number < n.version_number
    /\ n.spec_snapshot = T.spec_snapshot
    /\ mid.spec_snapshot # T.spec_snapshot

\* The Build rows of a version.
BuildsOf(version_id) == {i \in DOMAIN builds : builds[i].version_id = version_id}

\* C26: each Version has exactly one Build row once the request that made
\* it has been served, and never a second one: every attempt updates that
\* row under the same build id, and its attempt_number is the number of
\* the latest attempt (the calls made to the runner for it).
C26_OneBuildPerVersion ==
  /\ \A v \in versions : Cardinality(BuildsOf(v.id)) <= 1
  /\ NoneOpen => \A v \in versions : Cardinality(BuildsOf(v.id)) = 1
  /\ \A w \in Workers :
       (pc[w] = "finish" /\ wk[w].calls > 0)
       => BuildRow(builds, wk[w].build_id).attempt_number = wk[w].calls

\* ------------------------------------------------------------ edit scope
\* Inside the project directory and in none of the forbidden directories.
EditablePath(f) == f \in {PackageJson, HeroTsx, CtaTsx}

\* The paths whose content is not what it was before the call.
WrittenPaths(w) ==
  LET fs == files[wk[w].project]
  IN {f \in DOMAIN fs : f \notin DOMAIN wk[w].old_files
                          \/ fs[f] # wk[w].old_files[f]}

C28_RunnerIsolation ==
  /\ \A j, k \in Jobs :
       (j # k /\ jobs[j].container_name # NULL /\ jobs[k].container_name # NULL)
       => jobs[j].container_name # jobs[k].container_name
  /\ \A j \in Jobs : ~ jobs[j].harmed
  /\ \A j \in Jobs :
       jobs[j].pc = "returned" => \A c \in docker : c.id # j

\* --------------------------------------------------------------- preview
\* C29: a request to the preview route that carries the valid token of a
\* user who does not own the project is answered 403 and never with the
\* preview page.
C29_PreviewOwnership ==
  ( /\ preview.token \in Users
    /\ preview.project_id \in DOMAIN projects
    /\ projects[preview.project_id].user_id # preview.token
    /\ \E i \in DOMAIN builds : /\ builds[i].id = preview.build_id
                                 /\ builds[i].project_id = preview.project_id )
  => /\ preview.status_code = 403
     /\ preview.page # "preview_page"

\* ------------------------------------------------------ endpoint and status
\* C30: while the runner's /build is being called the stored status of the
\* Build row is building and the attempt is the first; whenever /repair is
\* being called the stored status is repairing and the attempt, as the
\* loop's note numbers it (attempt + 1), is the second or the third.
C30_StatusDuringCalls ==
  \A w \in Workers :
    /\ pc[w] = "bl_build_wait"
       => /\ BuildRow(builds, wk[w].build_id).status = "building"
          /\ wk[w].attempt = 1
    /\ pc[w] = "bl_repair_wait"
       => /\ BuildRow(builds, wk[w].build_id).status = "repairing"
          /\ wk[w].attempt + 1 \in {2, 3}

NoPatchCase(w) ==
  LET row == BuildRow(builds, wk[w].build_id)
      text == LogText(row.build_logs)
      a == analyze_failure(text, row.lint_output, row.build_output)
  IN \/ a.error_type \in {"type_error", "import_error", "unknown", "syntax_error"}
     \/ /\ a.error_type = "missing_dependency"
        /\ PackageJson \in DOMAIN files[wk[w].project]
        /\ MissingModule(text) \in files[wk[w].project][PackageJson]

SizeByRules(message, n, l) ==
  LET kw == KeywordsIn(message)
  IN IF kw \cap {"change", "update", "replace", "fix typo"} # {}
        \/ (n <= 1 /\ l <= 50) THEN "small"
     ELSE IF kw \cap {"add", "remove", "modify", "update component"} # {}
        \/ (n <= 3 /\ l <= 200) THEN "medium"
     ELSE "large"

C35_BackendsAgree ==
  verdict.key # NULL => verdict.postgres = verdict.memory

\* C36: the calls of one principal and endpoint made at one time of day,
\* concurrent or not, are answered True at most max_requests times, and
\* when no call is under way the counter of the current window equals the
\* number of calls answered True in it: no increment is lost.
C36_AtomicCounter ==
  /\ \A key \in Keys, t \in Times : granted[key, t] <= max_requests
  /\ (use_postgres /\ NoneOpen) =>
       \A key \in Keys :
         PostgresCount(rate_limits, key, clock) = granted[key, clock]

\* ------------------------------------------------------------ edit cost
\* C37: every iteration that reaches the charge step is classified small
\* and charged the cost of a small edit, 1 credit; its prompt holds the
\* keyword change or update.
C37_EditsAreSmall ==
  \A w \in Workers :
    (wk[w].op = "iterate" /\ wk[w].change_size # NULL)
    => /\ wk[w].change_size = "small"
       /\ wk[w].amount = 1
       /\ wk[w].charged \in {0, 1}
       /\ KeywordsIn(wk[w].message) \cap {"change", "update"} # {}

C37_Witness ==
  \E w \in Workers :
    /\ wk[w].op = "iterate"
    /\ wk[w].message = MsgUpdateWelcome
    /\ wk[w].charged = 1
    /\ files[wk[w].project][HeroTsx].title = "fresh"

\* ------------------------------------------------------------ current spec
\* C38: whenever no operation is in progress, the current_spec of every
\* project that has a version is the spec_snapshot of its version with the
\* highest number.
C38_CurrentSpecIsLatest ==
  NoneOpen =>
    \A p \in DOMAIN projects :
      \A v \in LatestVersions(versions, p) :
        projects[p].current_spec = v.spec_snapshot

\* A project at rest whose latest version was made by an iteration and
\* whose last build loop ended in an unhandled error (status left building).
C38_Witness ==
  /\ NoneOpen
  /\ \E p \in DOMAIN projects :
       /\ \E v \in LatestVersions(versions, p) :
            v.version_number >= 2 /\ v.spec_snapshot.last_update # NULL
       /\ \E i \in DOMAIN chat : chat[i].project_id = p
       /\ projects[p].status = "building"

\* ------------------------------------------------- rebuild and rollback
\* C39: a rebuild rejected because the project has no version, and a
\* rollback rejected because the target version is not in the project, have
\* charged nothing: balance and transaction log are as before the request.
C39_RejectedIsFree ==
  \A w \in Workers :
    (/\ wk[w].op \in {"rebuild", "rollback"}
     /\ wk[w].error \in {"NO_VERSION", "NOT_FOUND"})
    => wk[w].charged = 0

\* C40: when an operation that ran the build loop has completed, the
\* project's status is ready if the build ended in success and failed
\* otherwise, and on success the project's preview_url is the build's.
C40_StatusFollowsBuild ==
  \A w \in Workers :
    (pc[w] = "done" /\ wk[w].op \in {"create", "iterate", "rebuild", "rollback"})
    => LET build == BuildRow(builds, wk[w].build_id)
           project == projects[wk[w].project]
       IN IF build.status = "success"
          THEN project.status = "ready" /\ project.preview_url = build.preview_url
          ELSE project.status = "failed"
====
